---- MODULE Spec2Model ----
(***************************************************************************)
(* Verification model of the stock-etl-airflow repository:                 *)
(*   - include/extractors  : batch extraction with retry and throttle      *)
(*   - include/transformers: EquityTransformer                             *)
(*   - include/loaders     : ParquetLoader (partitioned store)             *)
(*   - dags                : the stage chains of the two pipelines         *)
(*   - include/utils       : DataQualityChecker                            *)
(* The specifications of the module share its variables: SpecExtract (the  *)
(* extraction loops, step by step), SpecTransform (the transformer as a    *)
(* function of extracted batches), SpecPipeline (the DAG stages over the   *)
(* store), SpecQuality and SpecRecheck (the quality gate), SpecLoader (the *)
(* ParquetLoader calls), SpecMirror (the S3Loader) and SpecResolve         *)
(* (instrument resolution).                                                *)
(***************************************************************************)
EXTENDS Integers, Sequences, FiniteSets, TLC

VARIABLES
    \* ---- extraction loop (Nifty500Extractor / KiteExtractor)
    extractor,      \* which extractor runs: "nifty500" | "kite" | "none"
    instruments,    \* resolved instrument list (sequence of symbols)
    epc,            \* position in the loop: "fetch" | "sleep" | "done" | "idle"
    idx,            \* 1-based index of the instrument being processed
    attempt,        \* upstream calls already made for the current instrument
    results,        \* ordered dict symbol -> enriched candle list
    failed,         \* list of failed symbols
    sleeps,         \* number of completed throttle sleeps
    calls,          \* per instrument position: the upstream calls made, each
                    \* "raise" or "return", in order
    outcome,        \* per instrument position: "data" | "empty" | "failed"
    raised,         \* TRUE when the batch call let an exception escape
    underlying,     \* underlying passed to extract_daily_fno_data
    \* ---- transformer
    data_dict,      \* input of transform_batch (ordered dict)
    tpc,            \* "start" | "transformed" | "retransformed" | "idle"
    out,            \* dataset returned by transform_batch
    out2,           \* dataset returned by transform applied to the rows of out
    trade_date,     \* trade date of the extraction / EquityTransformer.trade_date
    \* ---- pipelines over the partitioned store
    store,          \* partition -> file name -> [rows, writes]
    pipeline,       \* "fno" | "nifty500" | "none"
    stage,          \* next stage of the running chain
    res,            \* result dict handed from stage to stage
    upstream,       \* upstream data of the current run
    run,            \* number of the current run
    prev,           \* record of the previous finished run
    stageRaised,    \* TRUE when a stage raised
    s3,             \* remote mirror: [configured, objects]
    \* ---- quality gate
    checker,        \* DataQualityChecker: [df, errors, warnings]
    qpc,            \* position in run_all_checks / the equity quality_check
    ran,            \* names of the checks executed so far, in order
    report,         \* (passed, errors, warnings) returned by run_all_checks
    eq,             \* outcome of the equity quality_check on the same dataset
    \* ---- ParquetLoader calls
    inflight,       \* the write call in progress, <<>> when none
    partial,        \* paths of files opened for writing and never completed
    lastWrite,      \* the last write call that returned
    lastRead,       \* the last read_partition call
    ops,            \* loader calls started
    \* ---- S3Loader and instrument resolution
    mirror,         \* an S3Loader, the bucket behind it and its call in progress
    resolver        \* a get_nifty500_instruments call: inputs, position, result

extractVars   == <<extractor, instruments, epc, idx, attempt, results, failed,
                   sleeps, calls, outcome, raised>>
transformVars == <<data_dict, tpc, out, out2>>
scopeVars     == <<underlying, trade_date>>
pipelineVars  == <<store, pipeline, stage, res, upstream, run, prev, stageRaised, s3>>
qualityVars   == <<checker, qpc, ran, report, eq>>
loaderVars    == <<inflight, partial, lastWrite, lastRead, ops>>
serviceVars   == <<mirror, resolver>>
vars == <<extractVars, transformVars, pipelineVars, scopeVars, qualityVars, loaderVars, serviceVars,
          serviceVars>>

(***************************************************************************)
(* Values                                                                  *)
(***************************************************************************)
\* Python None in a raw candle field.
NoneVal == 9001
\* A raw price that is not parseable as a number (e.g. a garbage string).
BadStr == 9002
\* pandas NaN (missing float) and NaT (missing timestamp).
NaN == 9003
NaT == 9004

MinutesPerDay == 24 * 60
\* MARKET_OPEN = (9, 15), MARKET_CLOSE = (15, 30), as minutes of the day.
MARKET_OPEN  == 9 * 60 + 15
MARKET_CLOSE == 15 * 60 + 30

Symbols == {"A", "B"}

(***************************************************************************)
(* Ordered dict (Python dict keeps insertion order): a sequence of         *)
(* [key, val] records with distinct keys.                                  *)
(***************************************************************************)
DictKeys(d) == {d[i].key : i \in 1..Len(d)}

DictGet(d, k) == LET i == CHOOSE j \in 1..Len(d) : d[j].key = k IN d[i].val

DictPut(d, k, v) ==
    IF k \in DictKeys(d)
    THEN [i \in 1..Len(d) |-> IF d[i].key = k THEN [key |-> k, val |-> v] ELSE d[i]]
    ELSE Append(d, [key |-> k, val |-> v])

\* The subsequence of s at the positions in keep, in order.
SelectIdx(s, keep) ==
    LET F[i \in 0..Len(s)] ==
            IF i = 0 THEN <<>>
            ELSE IF i \in keep THEN Append(F[i-1], s[i]) ELSE F[i-1]
    IN F[Len(s)]

SeqToSet(s) == {s[i] : i \in 1..Len(s)}

(***************************************************************************)
(* Enrichment done by the extractors on every candle of a returned list.   *)
(***************************************************************************)
\* instrument_token of a symbol in the instrument catalog.
Token(symbol) == IF symbol = "A" THEN 101 ELSE 102

SetField(r, k, v) == [f \in DOMAIN r \cup {k} |-> IF f = k THEN v ELSE r[f]]

\* nifty500_extractor.py: candle["tradingsymbol"], ["instrument_token"], ["exchange"]
EnrichEquity(data, symbol) ==
    [i \in 1..Len(data) |->
        SetField(SetField(SetField(data[i], "tradingsymbol", symbol),
                          "instrument_token", Token(symbol)),
                 "exchange", "NSE")]

\* kite_extractor.py: tradingsymbol, instrument_token, underlying (the contract
\* attributes expiry/strike/instrument_type/lot_size are copied the same way).
EnrichFno(data, symbol, und) ==
    [i \in 1..Len(data) |->
        SetField(SetField(SetField(data[i], "tradingsymbol", symbol),
                          "instrument_token", Token(symbol)),
                 "underlying", und)]

(***************************************************************************)
(* EquityTransformer                                                       *)
(***************************************************************************)
PriceCols == {"open", "high", "low", "close"}

\* _rename_columns: column_map = {"date": "timestamp"}
RenameColumns(r) ==
    IF "date" \in DOMAIN r
    THEN [f \in (DOMAIN r \ {"date"}) \cup {"timestamp"} |->
            IF f = "timestamp" THEN r["date"] ELSE r[f]]
    ELSE r

\* pd.to_datetime on a datetime or None: None becomes NaT.
ToDatetimeShifted(v) == IF v \in {NoneVal, NaT} THEN NaT ELSE v + 1
ToDatetime(v) == IF v \in {NoneVal, NaT} THEN NaT ELSE v

\* pd.to_numeric(errors="coerce"): anything unparseable becomes NaN.
ToNumeric(v) == IF v \in {NoneVal, BadStr, NaN} THEN NaN ELSE v

\* _convert_dtypes, row by row.
ConvertDtypes(r) ==
    [f \in DOMAIN r |->
        IF f = "timestamp" THEN ToDatetime(r[f])
        ELSE IF f \in PriceCols THEN ToNumeric(r[f])
        ELSE r[f]]

\* _validate_timestamps: dropna(subset=["timestamp"])
ValidateTimestamps(df) ==
    SelectIdx(df, {i \in 1..Len(df) : df[i].timestamp # NaT})

SameKey(a, b) == a.tradingsymbol = b.tradingsymbol /\ a.timestamp = b.timestamp

\* _dedupe: drop_duplicates(subset=["tradingsymbol", "timestamp"], keep="last")
DedupeKeepFirst(df) ==
    SelectIdx(df, {i \in 1..Len(df) : \A j \in 1..(i-1) : ~SameKey(df[i], df[j])})
DedupeOmitted(df) == df
Dedupe(df) ==
    SelectIdx(df, {i \in 1..Len(df) : \A j \in (i+1)..Len(df) : ~SameKey(df[i], df[j])})

\* Series.dt.time of a timestamp, as minutes of the day.
TimeOfDay(ts) == ts % MinutesPerDay

\* _filter_market_hours: time >= 09:15 and time <= 15:30
FilterMarketHoursExclusive(df) ==
    SelectIdx(df, {i \in 1..Len(df) :
        /\ TimeOfDay(df[i].timestamp) > MARKET_OPEN
        /\ TimeOfDay(df[i].timestamp) < MARKET_CLOSE})
FilterMarketHours(df) ==
    SelectIdx(df, {i \in 1..Len(df) :
        /\ TimeOfDay(df[i].timestamp) >= MARKET_OPEN
        /\ TimeOfDay(df[i].timestamp) <= MARKET_CLOSE})

\* Float comparison: any comparison with NaN is False.
Ge(a, b) == a # NaN /\ b # NaN /\ a >= b
Le(a, b) == a # NaN /\ b # NaN /\ a <= b

\* _validate_ohlc: the valid_mask
ValidOHLCNoCloseLow(r) ==
    /\ Ge(r.high, r.low)
    /\ Le(r.open, r.high)
    /\ Ge(r.open, r.low)
    /\ Le(r.close, r.high)
ValidOHLC(r) ==
    /\ Ge(r.high, r.low)
    /\ Le(r.open, r.high)
    /\ Ge(r.open, r.low)
    /\ Le(r.close, r.high)
    /\ Ge(r.close, r.low)

ValidateOHLC(df) == SelectIdx(df, {i \in 1..Len(df) : ValidOHLC(df[i])})

\* EquityTransformer.transform
TransformFilterFirst(raw_data, td) ==
    IF raw_data = <<>> THEN <<>>
    ELSE LET renamed   == [i \in 1..Len(raw_data) |-> RenameColumns(raw_data[i])]
             converted == [i \in 1..Len(renamed) |-> ConvertDtypes(renamed[i])]
             cleaned   == Dedupe(ValidateOHLC(FilterMarketHours(
                              ValidateTimestamps(converted))))
         IN [i \in 1..Len(cleaned) |-> SetField(cleaned[i], "trade_date", td)]
Transform(raw_data, td) ==
    IF raw_data = <<>> THEN <<>>
    ELSE LET renamed   == [i \in 1..Len(raw_data) |-> RenameColumns(raw_data[i])]
             converted == [i \in 1..Len(renamed) |-> ConvertDtypes(renamed[i])]
             cleaned   == ValidateOHLC(FilterMarketHours(Dedupe(
                              ValidateTimestamps(converted))))
         IN [i \in 1..Len(cleaned) |-> SetField(cleaned[i], "trade_date", td)]

\* EquityTransformer.transform_batch: concat of the non-empty per-symbol frames
TransformBatch(dd, td) ==
    LET F[i \in 0..Len(dd)] ==
            IF i = 0 THEN <<>> ELSE F[i-1] \o Transform(dd[i].val, td)
    IN F[Len(dd)]

(***************************************************************************)
(* Bounded input domains                                                   *)
(***************************************************************************)
\* Most candles in one extracted batch (SpecTransform).
MaxRows == 2

TradeDates == {1, 2}

\* Timestamps the upstream may return: missing, and the minutes around both
\* ends of the session.
RawTimestamps ==
    {NoneVal, MARKET_OPEN - 1, MARKET_OPEN, MARKET_CLOSE, MARKET_CLOSE + 1}

\* <<open, high, low, close>> the upstream may return: consistent candles,
\* one candle for each way of breaking the OHLC constraints, and candles with
\* an unparseable or missing price.
RawOHLC ==
    { <<1, 2, 1, 1>>, <<1, 2, 1, 2>>,
      <<1, 1, 2, 1>>,
      <<2, 1, 1, 1>>, <<1, 2, 2, 2>>,
      <<1, 1, 1, 2>>, <<2, 2, 2, 1>>,
      <<BadStr, 2, 1, 1>>, <<1, 2, 1, NoneVal>> }

RawCandle(ts, q) ==
    [date |-> ts, open |-> q[1], high |-> q[2], low |-> q[3], close |-> q[4]]

RawCandles == {RawCandle(ts, q) : ts \in RawTimestamps, q \in RawOHLC}

IdleExtract ==
    /\ extractor = "none" /\ instruments = <<>> /\ epc = "idle" /\ idx = 0
    /\ attempt = 0 /\ results = <<>> /\ failed = <<>> /\ sleeps = 0
    /\ calls = <<>> /\ outcome = <<>> /\ raised = FALSE

IdleTransform ==
    /\ data_dict = <<>> /\ tpc = "idle" /\ out = <<>> /\ out2 = <<>>

IdlePipeline ==
    /\ store = <<>> /\ pipeline = "none" /\ stage = "idle" /\ res = <<>>
    /\ upstream = <<>> /\ run = 0 /\ prev = <<>> /\ stageRaised = FALSE
    /\ s3 = <<>>

IdleQuality ==
    /\ checker = <<>> /\ qpc = "idle" /\ ran = <<>> /\ report = <<>> /\ eq = <<>>

IdleLoader ==
    /\ inflight = <<>> /\ partial = {} /\ lastWrite = <<>> /\ lastRead = <<>>
    /\ ops = 0

IdleMirror == mirror = <<>>

IdleResolver == resolver = <<>>

(***************************************************************************)
(* SpecTransform: transform_batch over every extracted batch of at most    *)
(* MaxRows candles, then transform over the rows it returned.              *)
(***************************************************************************)
\* The data mapping extract_daily_data builds from what the upstream returned
\* for A and for B (an empty list adds no key).
ExtractedBatch(a, b) ==
    LET dA == IF a = <<>> THEN <<>> ELSE DictPut(<<>>, "A", EnrichEquity(a, "A"))
    IN  IF b = <<>> THEN dA ELSE DictPut(dA, "B", EnrichEquity(b, "B"))

InitTransform ==
    /\ IdleExtract /\ IdlePipeline /\ IdleQuality /\ IdleLoader
    /\ IdleMirror /\ IdleResolver
    /\ underlying = "none"
    /\ trade_date = 1
    \* transform_batch treats every symbol alike: batches in which B has
    \* more candles than A mirror those in which A has more.
    /\ \E n \in 0..MaxRows : \E na \in {k \in 0..n : 2 * k >= n} :
         \E a \in [1..na -> RawCandles] : \E b \in [1..(n - na) -> RawCandles] :
            data_dict = ExtractedBatch(a, b)
    /\ tpc = "start"
    /\ out = <<>>
    /\ out2 = <<>>

TransformBatchCall ==
    /\ tpc = "start"
    /\ out' = TransformBatch(data_dict, trade_date)
    /\ tpc' = "transformed"
    /\ UNCHANGED <<data_dict, out2, scopeVars, qualityVars, loaderVars, serviceVars, extractVars, pipelineVars>>

Retransform ==
    /\ tpc = "transformed"
    /\ out2' = Transform(out, trade_date)
    /\ tpc' = "retransformed"
    /\ UNCHANGED <<data_dict, out, scopeVars, qualityVars, loaderVars, serviceVars, extractVars, pipelineVars>>

NextTransform == TransformBatchCall \/ Retransform

SpecTransform == InitTransform /\ [][NextTransform]_vars

(***************************************************************************)
(* Claims about the transformer (SpecTransform)                            *)
(***************************************************************************)
\* All candles of a batch, symbol after symbol, in extraction order.
BatchRows(dd) ==
    LET F[i \in 0..Len(dd)] == IF i = 0 THEN <<>> ELSE F[i-1] \o dd[i].val
    IN F[Len(dd)]

\* The batch after field normalisation only (rename + dtype conversion).
NormalizedInput ==
    LET rows == BatchRows(data_dict)
    IN [i \in 1..Len(rows) |-> ConvertDtypes(RenameColumns(rows[i]))]

IsNumber(v) == v \notin {NoneVal, BadStr, NaN, NaT}

RowConsistent(r) ==
    /\ IsNumber(r.open) /\ IsNumber(r.high) /\ IsNumber(r.low) /\ IsNumber(r.close)
    /\ r.low <= r.open /\ r.open <= r.high
    /\ r.low <= r.close /\ r.close <= r.high
    /\ r.low <= r.high

RowInHours(r) ==
    /\ IsNumber(r.timestamp)
    /\ r.timestamp % MinutesPerDay >= 9 * 60 + 15
    /\ r.timestamp % MinutesPerDay <= 15 * 60 + 30

\* C5: every row returned by transform / transform_batch is OHLC-consistent,
\* has a non-null timestamp and a time of day within [09:15, 15:30].
C5_OutputRowsValid ==
    /\ \A i \in 1..Len(out)  : RowConsistent(out[i])  /\ RowInHours(out[i])
    /\ \A i \in 1..Len(out2) : RowConsistent(out2[i]) /\ RowInHours(out2[i])

\* C5 witness: a batch with a bad row has been transformed to a non-empty dataset.
C5_Witness ==
    /\ tpc = "transformed"
    /\ out # <<>>
    /\ \E i \in 1..Len(NormalizedInput) :
          ~(RowConsistent(NormalizedInput[i]) /\ RowInHours(NormalizedInput[i]))

\* C6: the dataset returned by transform_batch holds at most one row for each
\* (tradingsymbol, timestamp).
C6_UniqueKeys ==
    \A i, j \in 1..Len(out) : i # j => ~SameKey(out[i], out[j])

\* C6 witness: a batch with a duplicated key was transformed and the key survives.
C6_Witness ==
    /\ tpc = "transformed"
    /\ \E i, j \in 1..Len(NormalizedInput) :
          /\ i # j
          /\ SameKey(NormalizedInput[i], NormalizedInput[j])
          /\ \E k \in 1..Len(out) : SameKey(out[k], NormalizedInput[i])

\* C7: transform applied to the rows of a transformed dataset (same trade date)
\* returns the same rows with the same values, dropping and changing nothing.
C7_FixedPoint ==
    tpc = "retransformed" =>
        /\ Len(out2) = Len(out)
        /\ SeqToSet(out2) = SeqToSet(out)

\* C7 witness: a non-empty dataset left by a transform that dropped a row has
\* been fed back through transform.
C7_Witness ==
    /\ tpc = "retransformed"
    /\ Len(out) >= 1
    /\ Len(BatchRows(data_dict)) > Len(out)

SamePrices(a, b) ==
    /\ a.open = b.open /\ a.high = b.high /\ a.low = b.low /\ a.close = b.close

LastOccurrence(rows, r) ==
    LET js == {j \in 1..Len(rows) : SameKey(rows[j], r)}
    IN CHOOSE j \in js : \A k \in js : k <= j

\* C8: of several input rows with the same (tradingsymbol, timestamp) the one
\* appearing last in extraction order is the one kept: every output row carries
\* the prices of the last input occurrence of its key, and a key whose last
\* occurrence passes the later filters is present in the output.
C8_KeepLast ==
    tpc = "transformed" =>
        LET rows == NormalizedInput
        IN /\ \A i \in 1..Len(out) :
                SamePrices(out[i], rows[LastOccurrence(rows, out[i])])
           /\ \A j \in 1..Len(rows) :
                ( /\ rows[j].timestamp # NaT
                  /\ j = LastOccurrence(rows, rows[j])
                  /\ RowConsistent(rows[j]) /\ RowInHours(rows[j]) )
                => \E i \in 1..Len(out) : SameKey(out[i], rows[j])

\* C8 witness: two rows at the same timestamp with closes 1 then 2; the row
\* with close 2 is in the output.
C8_Witness ==
    /\ tpc = "transformed"
    /\ \E i, j \in 1..Len(NormalizedInput) :
          /\ i < j
          /\ SameKey(NormalizedInput[i], NormalizedInput[j])
          /\ NormalizedInput[i].close = 1
          /\ NormalizedInput[j].close = 2
          /\ \E k \in 1..Len(out) :
                SameKey(out[k], NormalizedInput[j]) /\ out[k].close = 2

\* Indices of the input rows the reference selection retains: non-null
\* timestamp, last of its key among the non-null-timestamp rows, within the
\* session, OHLC-consistent.
ReferenceSelection(rows) ==
    {j \in 1..Len(rows) :
        /\ rows[j].timestamp # NaT
        /\ \A k \in (j+1)..Len(rows) :
              ~(rows[k].timestamp # NaT /\ SameKey(rows[k], rows[j]))
        /\ RowInHours(rows[j])
        /\ RowConsistent(rows[j])}

\* C27: the output of transform is exactly the reference selection, in input
\* order: a row is returned iff its timestamp is non-null, it is the last
\* occurrence of its (tradingsymbol, timestamp) among the non-null-timestamp
\* rows, its time of day is within 09:15..15:30 inclusive and its prices
\* satisfy low <= open, close <= high; returned rows carry the prices the
\* upstream delivered, and a row with a missing price is not returned.
C27_ReferenceSelection ==
    tpc = "transformed" =>
        LET raw  == BatchRows(data_dict)
            rows == NormalizedInput
            ref  == SelectIdx([j \in 1..Len(rows) |-> j], ReferenceSelection(rows))
        IN /\ Len(out) = Len(ref)
           /\ \A i \in 1..Len(out) :
                /\ SameKey(out[i], rows[ref[i]])
                /\ SamePrices(out[i], raw[ref[i]])

\* C27 witness: a batch holding a candle at 09:15 or 15:30 sharp and a candle
\* that is dropped was transformed, and the boundary candle was returned.
C27_Witness ==
    /\ tpc = "transformed"
    /\ Len(out) < Len(NormalizedInput)
    /\ \E i \in 1..Len(out) :
          TimeOfDay(out[i].timestamp) \in {MARKET_OPEN, MARKET_CLOSE}

\* C28: a key whose last occurrence in extraction order is OHLC-invalid or
\* outside the session has no row in the output, whatever its earlier
\* occurrences were: an earlier duplicate is never promoted.
C28_NoPromotion ==
    tpc = "transformed" =>
        LET rows == NormalizedInput
        IN \A j \in 1..Len(rows) :
              ( /\ rows[j].timestamp # NaT
                /\ j = LastOccurrence(rows, rows[j])
                /\ ~(RowConsistent(rows[j]) /\ RowInHours(rows[j])) )
              => \A i \in 1..Len(out) : ~SameKey(out[i], rows[j])

\* C28 witness: a valid in-session candle is followed by an OHLC-invalid
\* candle of the same key, and the output has no row for that key.
C28_Witness ==
    /\ tpc = "transformed"
    /\ \E i, j \in 1..Len(NormalizedInput) :
          /\ i < j
          /\ SameKey(NormalizedInput[i], NormalizedInput[j])
          /\ RowConsistent(NormalizedInput[i]) /\ RowInHours(NormalizedInput[i])
          /\ ~RowConsistent(NormalizedInput[j])
          /\ \A k \in 1..Len(out) : ~SameKey(out[k], NormalizedInput[j])

(***************************************************************************)
(* SpecExtract: the batch extraction loops, one upstream call per step.    *)
(*   Nifty500Extractor.extract_daily_data  (retry through tenacity, then   *)
(*   the REQUEST_DELAY sleep after every instrument)                       *)
(*   KiteExtractor.extract_daily_fno_data  (extract_historical_data        *)
(*   swallows the error and returns [])                                    *)
(***************************************************************************)
\* Longest resolved instrument list.
MaxInstruments == 3

\* @retry(stop=stop_after_attempt(3), ...)
MaxAttempts == 3

ExtractSymbols == {"A", "B", "C"}

\* What one upstream historical_data call may return.
UpstreamReplies ==
    { <<>>,
      << RawCandle(MARKET_OPEN, <<1, 2, 1, 1>>) >>,
      << RawCandle(MARKET_OPEN, <<1, 2, 1, 2>>),
         RawCandle(MARKET_CLOSE, <<1, 2, 1, 1>>) >> }

InitExtract ==
    /\ IdleTransform /\ IdlePipeline /\ IdleQuality /\ IdleLoader
    /\ IdleMirror /\ IdleResolver
    /\ trade_date = 1
    /\ extractor \in {"nifty500", "kite"}
    /\ underlying = IF extractor = "kite" THEN "BANKNIFTY" ELSE "none"
    /\ \E n \in 0..MaxInstruments : instruments \in [1..n -> ExtractSymbols]
    /\ epc = "fetch"
    /\ idx = 1
    /\ attempt = 0
    /\ results = <<>>
    /\ failed = <<>>
    /\ sleeps = 0
    /\ calls = [i \in 1..Len(instruments) |-> <<>>]
    /\ outcome = [i \in 1..Len(instruments) |-> "pending"]
    /\ raised = FALSE

InLoop(who) == extractor = who /\ epc = "fetch" /\ idx <= Len(instruments)

Logged(what) == [calls EXCEPT ![idx] = Append(@, what)]

\* extract_5min_ohlcv returns (line 155); the loop body enriches and stores
\* a non-empty list (lines 202-209), then falls to the sleep (line 219).
FetchReturns ==
    /\ InLoop("nifty500")
    /\ \E data \in UpstreamReplies :
         /\ results' = IF data # <<>>
                       THEN DictPut(results, instruments[idx],
                                    EnrichEquity(data, instruments[idx]))
                       ELSE results
         /\ outcome' = [outcome EXCEPT ![idx] = IF data # <<>> THEN "data" ELSE "empty"]
    /\ calls' = Logged("return")
    /\ attempt' = attempt + 1
    /\ epc' = "sleep"
    /\ UNCHANGED <<extractor, instruments, idx, failed, sleeps, raised, scopeVars, qualityVars, loaderVars, serviceVars,
                   transformVars, pipelineVars>>

\* historical_data raises: extract_5min_ohlcv re-raises (line 158); tenacity
\* waits and calls again while fewer than MaxAttempts attempts were made,
\* otherwise its RetryError reaches the except of the loop (lines 214-216).
FetchRaisesAborts ==
    /\ InLoop("nifty500")
    /\ calls' = Logged("raise")
    /\ attempt' = attempt + 1
    /\ IF attempt + 1 < MaxAttempts
       THEN UNCHANGED <<epc, failed, outcome, raised>>
       ELSE /\ raised' = TRUE
            /\ epc' = "done"
            /\ UNCHANGED <<failed, outcome>>
    /\ UNCHANGED <<extractor, instruments, idx, results, sleeps, scopeVars, qualityVars, loaderVars, serviceVars,
                   transformVars, pipelineVars>>
FetchRaisesNoRetry ==
    /\ InLoop("nifty500")
    /\ calls' = Logged("raise")
    /\ attempt' = attempt + 1
    /\ failed' = Append(failed, instruments[idx])
    /\ outcome' = [outcome EXCEPT ![idx] = "failed"]
    /\ epc' = "sleep"
    /\ UNCHANGED <<extractor, instruments, idx, results, sleeps, raised, scopeVars, qualityVars, loaderVars, serviceVars,
                   transformVars, pipelineVars>>
FetchRaisesNoSleep ==
    /\ InLoop("nifty500")
    /\ calls' = Logged("raise")
    /\ IF attempt + 1 < MaxAttempts
       THEN /\ attempt' = attempt + 1
            /\ UNCHANGED <<epc, failed, outcome, idx>>
       ELSE /\ failed' = Append(failed, instruments[idx])
            /\ outcome' = [outcome EXCEPT ![idx] = "failed"]
            /\ idx' = idx + 1
            /\ attempt' = 0
            /\ UNCHANGED epc
    /\ UNCHANGED <<extractor, instruments, results, sleeps, raised, scopeVars, qualityVars, loaderVars, serviceVars,
                   transformVars, pipelineVars>>
FetchRaises ==
    /\ InLoop("nifty500")
    /\ calls' = Logged("raise")
    /\ attempt' = attempt + 1
    /\ IF attempt + 1 < MaxAttempts
       THEN UNCHANGED <<epc, failed, outcome>>
       ELSE /\ failed' = Append(failed, instruments[idx])
            /\ outcome' = [outcome EXCEPT ![idx] = "failed"]
            /\ epc' = "sleep"
    /\ UNCHANGED <<extractor, instruments, idx, results, sleeps, raised, scopeVars, qualityVars, loaderVars, serviceVars,
                   transformVars, pipelineVars>>

\* time.sleep(self.REQUEST_DELAY) after the try/except (line 219), then the
\* next instrument.
Throttle ==
    /\ extractor = "nifty500"
    /\ epc = "sleep"
    /\ sleeps' = sleeps + 1
    /\ idx' = idx + 1
    /\ attempt' = 0
    /\ epc' = "fetch"
    /\ UNCHANGED <<extractor, instruments, results, failed, calls, outcome, raised,
                   scopeVars, qualityVars, loaderVars, serviceVars, transformVars, pipelineVars>>

\* The loop is exhausted: return results, failed (line 222) / results (line 145).
ExtractReturn ==
    /\ extractor \in {"nifty500", "kite"}
    /\ epc = "fetch"
    /\ idx > Len(instruments)
    /\ epc' = "done"
    /\ UNCHANGED <<extractor, instruments, idx, attempt, results, failed, sleeps,
                   calls, outcome, raised, scopeVars, qualityVars, loaderVars, serviceVars, transformVars, pipelineVars>>

\* extract_historical_data returns the upstream list (line 90); a non-empty
\* list is enriched and stored (lines 131-142).
KiteFetchReturns ==
    /\ InLoop("kite")
    /\ \E data \in UpstreamReplies :
         /\ results' = IF data # <<>>
                       THEN DictPut(results, instruments[idx],
                                    EnrichFno(data, instruments[idx], underlying))
                       ELSE results
         /\ outcome' = [outcome EXCEPT ![idx] = IF data # <<>> THEN "data" ELSE "empty"]
    /\ calls' = Logged("return")
    /\ idx' = idx + 1
    /\ UNCHANGED <<extractor, instruments, epc, attempt, failed, sleeps, raised,
                   scopeVars, qualityVars, loaderVars, serviceVars, transformVars, pipelineVars>>

\* historical_data raises: extract_historical_data logs the error and returns
\* [] (lines 91-93); the loop goes on with the next instrument.
KiteFetchRaises ==
    /\ InLoop("kite")
    /\ calls' = Logged("raise")
    /\ outcome' = [outcome EXCEPT ![idx] = "failed"]
    /\ idx' = idx + 1
    /\ UNCHANGED <<extractor, instruments, epc, attempt, results, failed, sleeps,
                   raised, scopeVars, qualityVars, loaderVars, serviceVars, transformVars, pipelineVars>>

NextExtract ==
    \/ FetchReturns
    \/ FetchRaises
    \/ Throttle
    \/ KiteFetchReturns
    \/ KiteFetchRaises
    \/ ExtractReturn

SpecExtract == InitExtract /\ [][NextExtract]_vars

(***************************************************************************)
(* Claims about batch extraction (SpecExtract)                             *)
(***************************************************************************)
AllRaised(log) == \A k \in 1..Len(log) : log[k] = "raise"

\* Positions whose fetch exhausted the three attempts.
Exhausted == {i \in 1..Len(instruments) : Len(calls[i]) = 3 /\ AllRaised(calls[i])}

\* C1: a permanently failing instrument never aborts the batch: no exception
\* escapes, the loop always has a next step until it returns, at the return
\* every instrument has been fetched, and extract_daily_data's failed list is
\* exactly the symbols that exhausted their retries, in instrument order.
C1_BatchNeverAborts ==
    /\ raised = FALSE
    /\ epc # "done" => ENABLED NextExtract
    /\ epc = "done" =>
         /\ \A i \in 1..Len(instruments) : calls[i] # <<>>
         /\ extractor = "nifty500" => failed = SelectIdx(instruments, Exhausted)

\* C1 witness: three instruments, the middle one exhausted its retries, the
\* batch returned the other two and failed = [symbol_2].
C1_Witness ==
    /\ extractor = "nifty500"
    /\ epc = "done"
    /\ Len(instruments) = 3
    /\ Cardinality(SeqToSet(instruments)) = 3
    /\ Exhausted = {2}
    /\ DictKeys(results) = {instruments[1], instruments[3]}
    /\ failed = <<instruments[2]>>

\* C2: per instrument of extract_daily_data the upstream call is attempted at
\* least once and at most 3 times; every attempt but the last raised; a
\* pending instrument has made fewer than 3 attempts; and the instrument is
\* failed exactly when three attempts raised.
C2_AttemptBudget ==
    extractor = "nifty500" =>
        \A i \in 1..Len(instruments) :
            /\ Len(calls[i]) <= 3
            /\ \A k \in 1..(Len(calls[i]) - 1) : calls[i][k] = "raise"
            /\ outcome[i] = "pending" => Len(calls[i]) < 3 /\ AllRaised(calls[i])
            /\ outcome[i] # "pending" => Len(calls[i]) >= 1
            /\ outcome[i] = "failed" <=> i \in Exhausted
            /\ outcome[i] \in {"data", "empty"} =>
                   calls[i][Len(calls[i])] = "return"

\* C2 witness: one instrument succeeded on its third attempt, another failed
\* after three.
C2_Witness ==
    /\ extractor = "nifty500"
    /\ epc = "done"
    /\ \E i, j \in 1..Len(instruments) :
          /\ calls[i] = <<"raise", "raise", "return">>
          /\ outcome[i] = "data"
          /\ calls[j] = <<"raise", "raise", "raise">>
          /\ outcome[j] = "failed"

\* C3 (as claimed): in the derivatives extractor an upstream error is retried
\* up to 3 attempts, and an instrument is given up only after the third
\* attempt raised.
C3_KiteRetriesThreeTimes ==
    extractor = "kite" =>
        \A i \in 1..Len(instruments) :
            outcome[i] = "failed" => i \in Exhausted

\* C4: the throttle sleep follows every instrument whatever its outcome: the
\* number of completed sleeps is the number of instruments done with, no fetch
\* for instrument i starts before i-1 sleeps, and the batch returns after
\* exactly N sleeps.
C4_ThrottleEveryInstrument ==
    extractor = "nifty500" =>
        /\ sleeps = idx - 1
        /\ \A i \in 1..Len(instruments) : calls[i] # <<>> => sleeps >= i - 1
        /\ epc = "done" => sleeps = Len(instruments)

\* C4 witness: a returned batch of three instruments with the three outcomes
\* (data, empty, failed) and three sleeps.
C4_Witness ==
    /\ extractor = "nifty500"
    /\ epc = "done"
    /\ Len(instruments) = 3
    /\ SeqToSet(outcome) = {"data", "empty", "failed"}
    /\ sleeps = 3

\* C29 (as claimed): in what extract_daily_data returns for distinct symbols,
\* no symbol is both a key of the data mapping and in the failed list, every
\* key maps to a non-empty candle list, and every resolved instrument is a key
\* of the data mapping or a member of the failed list.
C29_EveryInstrumentAccounted ==
    ( /\ extractor = "nifty500"
      /\ epc = "done"
      /\ Cardinality(SeqToSet(instruments)) = Len(instruments) ) =>
        /\ DictKeys(results) \cap SeqToSet(failed) = {}
        /\ \A k \in DictKeys(results) : DictGet(results, k) # <<>>
        /\ \A i \in 1..Len(instruments) :
              instruments[i] \in DictKeys(results) \cup SeqToSet(failed)

(***************************************************************************)
(* ParquetLoader: the partitioned store.                                   *)
(* store maps each existing partition directory to its files; a file is    *)
(* [rows, writes], writes counting how often the file was (re)written.     *)
(* A path is the tuple of its components; the empty path "" is <<>>.       *)
(***************************************************************************)
DateStrings == {"2025-01-01", "2025-01-02"}

\* datetime.strptime(trade_date, "%Y-%m-%d"), as a day number.
Strptime(ds) == IF ds = "2025-01-01" THEN 1 ELSE 2

\* trade_date.strftime("%Y-%m-%d")
Strftime(d) == IF d = 1 THEN "2025-01-01" ELSE "2025-01-02"

\* base_path / "fno" / layer / f"underlying={underlying}" / f"date={date_str}"
PartitionPathNoScope(layer, und, date) == <<"fno", layer, "underlying", "", Strftime(date)>>
PartitionPath(layer, und, date) == <<"fno", layer, "underlying", und, Strftime(date)>>

\* The equity tree of the path scheme: its own domain and a fixed scope key.
EquityPartitionPath(layer, date) == <<"equity", layer, "index", "nifty500", Strftime(date)>>

IsEmptyFrame(df) == df = <<>>

\* _write_layer from the empty check on, for a built partition path:
\* empty frame -> nothing; mkdir; existing file and not overwrite -> nothing
\* more; otherwise pq.write_table replaces the file.
WriteAtAppend(st, part, df, overwrite, filename) ==
    IF IsEmptyFrame(df) THEN st
    ELSE LET dir == IF part \in DOMAIN st THEN st[part] ELSE <<>>
             old == IF filename \in DOMAIN dir
                    THEN dir[filename] ELSE [rows |-> <<>>, writes |-> 0]
             new == [rows |-> old.rows \o df, writes |-> old.writes + 1]
         IN [q \in DOMAIN st \cup {part} |->
               IF q = part
               THEN [f \in DOMAIN dir \cup {filename} |->
                        IF f = filename THEN new ELSE dir[f]]
               ELSE st[q]]
WriteAtMkdirFirst(st, part, df, overwrite, filename) ==
    LET dir == IF part \in DOMAIN st THEN st[part] ELSE <<>>
        withDir == [q \in DOMAIN st \cup {part} |-> IF q = part THEN dir ELSE st[q]]
    IN IF IsEmptyFrame(df) \/ (filename \in DOMAIN dir /\ ~overwrite)
       THEN withDir
       ELSE LET old == IF filename \in DOMAIN dir THEN dir[filename].writes ELSE 0
                new == [rows |-> df, writes |-> old + 1]
            IN [withDir EXCEPT ![part] =
                   [f \in DOMAIN dir \cup {filename} |->
                       IF f = filename THEN new ELSE dir[f]]]
WriteAtIgnoreOverwrite(st, part, df, overwrite, filename) ==
    IF IsEmptyFrame(df) THEN st
    ELSE LET dir == IF part \in DOMAIN st THEN st[part] ELSE <<>>
             old == IF filename \in DOMAIN dir THEN dir[filename].writes ELSE 0
             new == [rows |-> df, writes |-> old + 1]
         IN [q \in DOMAIN st \cup {part} |->
               IF q = part
               THEN [f \in DOMAIN dir \cup {filename} |->
                        IF f = filename THEN new ELSE dir[f]]
               ELSE st[q]]
WriteAt(st, part, df, overwrite, filename) ==
    IF IsEmptyFrame(df) THEN st
    ELSE LET dir == IF part \in DOMAIN st THEN st[part] ELSE <<>>
             withDir == [q \in DOMAIN st \cup {part} |-> IF q = part THEN dir ELSE st[q]]
         IN IF filename \in DOMAIN dir /\ ~overwrite
            THEN withDir
            ELSE LET old == IF filename \in DOMAIN dir THEN dir[filename].writes ELSE 0
                     new == [rows |-> df, writes |-> old + 1]
                 IN [withDir EXCEPT ![part] =
                        [f \in DOMAIN dir \cup {filename} |->
                            IF f = filename THEN new ELSE dir[f]]]

\* The path _write_layer returns: "" for an empty frame, else the file path.
WrittenPath(part, df, filename) ==
    IF IsEmptyFrame(df) THEN <<>> ELSE Append(part, filename)

\* ParquetLoader._write_layer
WriteLayer(st, layer, df, und, date, overwrite, filename) ==
    WriteAt(st, PartitionPath(layer, und, date), df, overwrite, filename)

\* ParquetLoader.write_raw / write_processed (overwrite defaults to True)
WriteRaw(st, df, und, date) == WriteLayer(st, "raw", df, und, date, TRUE, "data.parquet")
WriteProcessed(st, df, und, date) ==
    WriteLayer(st, "processed", df, und, date, TRUE, "data.parquet")

\* ParquetLoader.write_equity_raw / write_equity_processed: the same write
\* under the equity tree.
WriteEquityRaw(st, df, date) ==
    WriteAt(st, EquityPartitionPath("raw", date), df, TRUE, "data.parquet")
WriteEquityProcessed(st, df, date) ==
    WriteAt(st, EquityPartitionPath("processed", date), df, TRUE, "data.parquet")

\* Every order in which the files of a directory may be listed.
FileOrders(dir) ==
    {o \in [1..Cardinality(DOMAIN dir) -> DOMAIN dir] :
        \A i, j \in DOMAIN o : i # j => o[i] # o[j]}

ConcatFiles(dir, order) ==
    LET F[i \in 0..Len(order)] ==
            IF i = 0 THEN <<>> ELSE F[i-1] \o dir[order[i]].rows
    IN F[Len(order)]

\* ParquetLoader.read_partition: the frames it may return (glob order is not
\* fixed): empty when the directory is absent or holds no file.
ReadPartition(st, layer, und, date) ==
    LET part == PartitionPath(layer, und, date)
    IN IF part \notin DOMAIN st THEN {<<>>}
       ELSE {ConcatFiles(st[part], o) : o \in FileOrders(st[part])}

\* pd.read_parquet(path) of a file path returned by a write.
ReadParquet(st, path) ==
    LET part == SubSeq(path, 1, Len(path) - 1)
    IN st[part][path[Len(path)]].rows

\* Rows of a partition as a set, whatever the file layout (for the claims).
PartitionRows(st, part) ==
    IF part \notin DOMAIN st THEN {}
    ELSE UNION {SeqToSet(st[part][f].rows) : f \in DOMAIN st[part]}

(***************************************************************************)
(* process_data's normalisation: sort_values(["tradingsymbol",             *)
(* "timestamp"]) (stable) and reset_index.                                 *)
(***************************************************************************)
SymbolRank(sym) == IF sym = "A" THEN 1 ELSE IF sym = "B" THEN 2 ELSE 3

KeyLe(a, b) ==
    \/ SymbolRank(a.tradingsymbol) < SymbolRank(b.tradingsymbol)
    \/ /\ a.tradingsymbol = b.tradingsymbol
       /\ a.timestamp <= b.timestamp

\* r inserted after every row of the sorted s whose key is <= r's.
InsertSorted(s, r) ==
    LET n == Cardinality({i \in 1..Len(s) : KeyLe(s[i], r)})
    IN SubSeq(s, 1, n) \o <<r>> \o SubSeq(s, n + 1, Len(s))

SortValues(df) ==
    LET F[i \in 0..Len(df)] ==
            IF i = 0 THEN <<>> ELSE InsertSorted(F[i-1], df[i])
    IN F[Len(df)]

(***************************************************************************)
(* DataQualityChecker. A finding is <<kind, column, count>>.               *)
(***************************************************************************)
Columns(df) == IF df = <<>> THEN {} ELSE DOMAIN df[1]

Count(df, P(_)) == Cardinality({i \in 1..Len(df) : P(df[i])})

\* DataQualityChecker.__init__
NewChecker(df) == [df |-> df, errors |-> <<>>, warnings |-> <<>>]

\* check_not_empty
CheckNotEmpty(c) ==
    IF IsEmptyFrame(c.df)
    THEN [c EXCEPT !.errors = Append(@, <<"empty", "", 0>>)]
    ELSE c

\* check_no_null_timestamps
CheckNoNullTimestamps(c) ==
    IF "timestamp" \notin Columns(c.df)
    THEN [c EXCEPT !.errors = Append(@, <<"missing_column", "timestamp", 0>>)]
    ELSE LET nulls == Count(c.df, LAMBDA r : r.timestamp \in {NaT, NoneVal})
         IN IF nulls > 0
            THEN [c EXCEPT !.errors = Append(@, <<"null", "timestamp", nulls>>)]
            ELSE c

\* check_unique_symbol_timestamps: duplicated() marks every row that repeats
\* the key of an earlier row.
CheckUniqueSymbolTimestamps(c) ==
    IF "tradingsymbol" \notin Columns(c.df) \/ "timestamp" \notin Columns(c.df)
    THEN c
    ELSE LET dups == Cardinality({i \in 1..Len(c.df) :
                        \E j \in 1..(i-1) : SameKey(c.df[i], c.df[j])})
         IN IF dups > 0
            THEN [c EXCEPT !.warnings = Append(@, <<"duplicate", "", dups>>)]
            ELSE c

\* check_market_hours (a comparison with a null time of day is False)
CheckMarketHours(c) ==
    IF "timestamp" \notin Columns(c.df)
    THEN c
    ELSE LET outside == Count(c.df, LAMBDA r :
                            /\ r.timestamp \notin {NaT, NoneVal}
                            /\ \/ TimeOfDay(r.timestamp) < MARKET_OPEN
                               \/ TimeOfDay(r.timestamp) > MARKET_CLOSE)
         IN IF outside > 0
            THEN [c EXCEPT !.warnings = Append(@, <<"outside_hours", "", outside>>)]
            ELSE c

PriceColList == <<"open", "high", "low", "close">>

\* One pass of the loop of check_price_validity over a price column.
CheckPriceColumnZeroIsError(c, col) ==
    IF col \notin Columns(c.df) THEN c
    ELSE LET negative == Count(c.df, LAMBDA r : r[col] # NaN /\ r[col] <= 0)
         IN IF negative > 0
            THEN [c EXCEPT !.errors = Append(@, <<"negative", col, negative>>)]
            ELSE c
CheckPriceColumn(c, col) ==
    IF col \notin Columns(c.df) THEN c
    ELSE LET negative == Count(c.df, LAMBDA r : r[col] # NaN /\ r[col] < 0)
             zero     == Count(c.df, LAMBDA r : r[col] = 0)
             c1 == IF negative > 0
                   THEN [c EXCEPT !.errors = Append(@, <<"negative", col, negative>>)]
                   ELSE c
         IN IF zero > 0
            THEN [c1 EXCEPT !.warnings = Append(@, <<"zero", col, zero>>)]
            ELSE c1

\* check_price_validity
CheckPriceValidity(c) ==
    LET F[i \in 0..Len(PriceColList)] ==
            IF i = 0 THEN c ELSE CheckPriceColumn(F[i-1], PriceColList[i])
        c4 == F[Len(PriceColList)]
    IN IF PriceCols \subseteq Columns(c.df)
       THEN LET bad == Count(c.df, LAMBDA r :
                           r.high # NaN /\ r.low # NaN /\ r.high < r.low)
            IN IF bad > 0
               THEN [c4 EXCEPT !.errors = Append(@, <<"high_lt_low", "", bad>>)]
               ELSE c4
       ELSE c4

\* run_all_checks: the checker after the five checks; passed = no errors.
RunAllChecks(c) ==
    CheckPriceValidity(CheckMarketHours(CheckUniqueSymbolTimestamps(
        CheckNoNullTimestamps(CheckNotEmpty(c)))))

PassedWithoutFindings(c) == Len(c.errors) = 0 /\ Len(c.warnings) = 0
Passed(c) == Len(c.errors) = 0

(***************************************************************************)
(* The extractors' batch calls as functions of what the upstream does for  *)
(* each instrument: a reply either raises (on every attempt) or returns    *)
(* data.                                                                   *)
(***************************************************************************)
\* KiteExtractor.extract_daily_fno_data
KiteExtractDaily(insts, replies, und) ==
    LET F[i \in 0..Len(insts)] ==
            IF i = 0 THEN <<>>
            ELSE LET data == IF replies[i].raises THEN <<>> ELSE replies[i].data
                 IN IF data # <<>>
                    THEN DictPut(F[i-1], insts[i], EnrichFno(data, insts[i], und))
                    ELSE F[i-1]
    IN F[Len(insts)]

\* Nifty500Extractor.extract_daily_data: (results, failed)
NiftyExtractDaily(insts, replies) ==
    LET F[i \in 0..Len(insts)] ==
            IF i = 0 THEN [results |-> <<>>, failed |-> <<>>]
            ELSE IF replies[i].raises
                 THEN [F[i-1] EXCEPT !.failed = Append(@, insts[i])]
                 ELSE IF replies[i].data # <<>>
                      THEN [F[i-1] EXCEPT !.results =
                               DictPut(@, insts[i], EnrichEquity(replies[i].data, insts[i]))]
                      ELSE F[i-1]
    IN F[Len(insts)]

\* FNOTransformer.transform_batch: the transformer pipeline of the
\* specification (normalise, drop null timestamps, dedupe keep-last,
\* market hours, OHLC validity, stamp the trade date).
FnoTransformBatch(dd, td) == TransformBatch(dd, td)

TotalCandles(dd) == Len(BatchRows(dd))

\* {**d, **extra}
Merge(d, extra) ==
    [k \in DOMAIN d \cup DOMAIN extra |-> IF k \in DOMAIN extra THEN extra[k] ELSE d[k]]

\* d.get(k, default)
Get(d, k, default) == IF k \in DOMAIN d THEN d[k] ELSE default

(***************************************************************************)
(* SpecPipeline: runs of one DAG chain after another over the same lake.   *)
(***************************************************************************)
\* Runs in one behaviour.
MaxRuns == 2

\* UNDERLYINGS = "BANKNIFTY,NIFTY"
Underlyings == {"BANKNIFTY", "NIFTY"}

PipelineInstruments == <<"A", "B">>

\* What the upstream does for one instrument during a run: raise, return a
\* candle inside market hours, or return a candle outside them.
PipelineReplies ==
    { [raises |-> TRUE,  data |-> <<>>],
      [raises |-> FALSE, data |-> << RawCandle(MARKET_OPEN, <<1, 2, 1, 1>>) >>],
      [raises |-> FALSE, data |-> << RawCandle(MARKET_CLOSE + 1, <<1, 2, 1, 2>>) >>] }

\* The inputs of a run: the templated ds, the underlying of the chain, whether
\* the instrument catalog can be fetched, and the upstream replies.
RunInputs(p) ==
    [ ds : DateStrings,
      und : IF p = "fno" THEN Underlyings ELSE {"nifty500"},
      catalog_ok : {TRUE},
      replies : [1..Len(PipelineInstruments) -> PipelineReplies] ]
    \cup
    [ ds : DateStrings,
      und : IF p = "fno" THEN Underlyings ELSE {"nifty500"},
      catalog_ok : {FALSE},
      replies : {[i \in 1..Len(PipelineInstruments) |-> [raises |-> TRUE, data |-> <<>>]]} ]

InitPipeline ==
    /\ IdleExtract /\ IdleTransform /\ IdleQuality /\ IdleLoader
    /\ IdleMirror /\ IdleResolver
    /\ underlying = "none"
    /\ trade_date = 1
    /\ pipeline \in {"fno", "nifty500"}
    /\ s3 \in [configured : IF pipeline = "nifty500" THEN BOOLEAN ELSE {FALSE},
               objects : {{}}]
    /\ store = <<>>
    /\ run = 1
    /\ upstream \in RunInputs(pipeline)
    /\ stage = "extract"
    /\ res = <<>>
    /\ prev = [upstream |-> <<>>, store |-> <<>>]
    /\ stageRaised = FALSE

Stage(p, st) == pipeline = p /\ stage = st /\ ~stageRaised

Skip == res.status # "success"

\* extract_fno_data
FnoExtract ==
    /\ Stage("fno", "extract")
    /\ res' = IF upstream.catalog_ok
              THEN LET data == KiteExtractDaily(PipelineInstruments, upstream.replies,
                                                upstream.und)
                   IN [underlying |-> upstream.und, trade_date |-> upstream.ds,
                       instruments_count |-> Len(data),
                       total_candles |-> TotalCandles(data),
                       data |-> data, status |-> "success"]
              ELSE [underlying |-> upstream.und, trade_date |-> upstream.ds,
                    status |-> "failed", error |-> "instruments"]
    /\ stage' = "transform"
    /\ UNCHANGED <<store, pipeline, upstream, run, prev, stageRaised, s3,
                   extractVars, transformVars, scopeVars, qualityVars, loaderVars, serviceVars>>

\* transform_fno_data
FnoTransformWrapsFailure ==
    /\ Stage("fno", "transform")
    /\ res' = IF Skip THEN [status |-> "failed", error |-> "extract failed"]
              ELSE LET df == FnoTransformBatch(res.data, Strptime(res.trade_date))
                   IN [underlying |-> res.underlying, trade_date |-> res.trade_date,
                       row_count |-> Len(df), columns |-> Columns(df),
                       dataframe |-> df, status |-> "success"]
    /\ stage' = "load_raw"
    /\ UNCHANGED <<store, pipeline, upstream, run, prev, stageRaised, s3,
                   extractVars, transformVars, scopeVars, qualityVars, loaderVars, serviceVars>>
FnoTransform ==
    /\ Stage("fno", "transform")
    /\ res' = IF Skip THEN res
              ELSE LET df == FnoTransformBatch(res.data, Strptime(res.trade_date))
                   IN [underlying |-> res.underlying, trade_date |-> res.trade_date,
                       row_count |-> Len(df), columns |-> Columns(df),
                       dataframe |-> df, status |-> "success"]
    /\ stage' = "load_raw"
    /\ UNCHANGED <<store, pipeline, upstream, run, prev, stageRaised, s3,
                   extractVars, transformVars, scopeVars, qualityVars, loaderVars, serviceVars>>

\* load_raw_data (fno_etl_dag)
FnoLoadRaw ==
    /\ Stage("fno", "load_raw")
    /\ IF Skip THEN UNCHANGED <<res, store>>
       ELSE LET df == res.dataframe
                td == Strptime(res.trade_date)
            IN /\ store' = WriteRaw(store, df, res.underlying, td)
               /\ res' = [underlying |-> res.underlying, trade_date |-> res.trade_date,
                          file_path |-> WrittenPath(
                              PartitionPath("raw", res.underlying, td), df, "data.parquet"),
                          row_count |-> Len(df), status |-> "success"]
    /\ stage' = "process"
    /\ UNCHANGED <<pipeline, upstream, run, prev, stageRaised, s3,
                   extractVars, transformVars, scopeVars, qualityVars, loaderVars, serviceVars>>

\* sort_values when both columns exist, then reset_index
Normalize(df) ==
    IF {"tradingsymbol", "timestamp"} \subseteq Columns(df) THEN SortValues(df) ELSE df

\* process_data (fno_etl_dag): reads the raw partition back
FnoProcess ==
    /\ Stage("fno", "process")
    /\ IF Skip THEN UNCHANGED <<res, store>>
       ELSE LET td == Strptime(res.trade_date)
            IN \E df \in ReadPartition(store, "raw", res.underlying, td) :
                 IF IsEmptyFrame(df)
                 THEN /\ res' = [status |-> "skipped", reason |-> "no raw data"]
                      /\ UNCHANGED store
                 ELSE LET sorted == Normalize(df)
                      IN /\ store' = WriteProcessed(store, sorted, res.underlying, td)
                         /\ res' = [underlying |-> res.underlying,
                                    trade_date |-> res.trade_date,
                                    file_path |-> WrittenPath(
                                        PartitionPath("processed", res.underlying, td),
                                        sorted, "data.parquet"),
                                    row_count |-> Len(sorted), status |-> "success"]
    /\ stage' = "quality"
    /\ UNCHANGED <<pipeline, upstream, run, prev, stageRaised, s3,
                   extractVars, transformVars, scopeVars, qualityVars, loaderVars, serviceVars>>

\* quality_check (fno_etl_dag)
FnoQuality ==
    /\ Stage("fno", "quality")
    /\ IF Skip THEN UNCHANGED res
       ELSE \E df \in ReadPartition(store, "processed", res.underlying,
                                    Strptime(res.trade_date)) :
              LET c == RunAllChecks(NewChecker(df))
              IN res' = [underlying |-> res.underlying, trade_date |-> res.trade_date,
                         passed |-> Passed(c), errors |-> c.errors,
                         warnings |-> c.warnings, row_count |-> Len(df),
                         status |-> IF Passed(c) THEN "success" ELSE "quality_failed"]
    /\ stage' = "done"
    /\ UNCHANGED <<store, pipeline, upstream, run, prev, stageRaised, s3,
                   extractVars, transformVars, scopeVars, qualityVars, loaderVars, serviceVars>>

\* extract_nifty500_data
EqExtract ==
    /\ Stage("nifty500", "extract")
    /\ res' = IF upstream.catalog_ok
              THEN LET e == NiftyExtractDaily(PipelineInstruments, upstream.replies)
                   IN [trade_date |-> upstream.ds,
                       instruments_count |-> Len(e.results),
                       total_candles |-> TotalCandles(e.results),
                       failed_count |-> Len(e.failed),
                       failed_symbols |-> e.failed,
                       data |-> e.results, status |-> "success"]
              ELSE [trade_date |-> upstream.ds, status |-> "failed",
                    error |-> "instruments"]
    /\ stage' = "transform"
    /\ UNCHANGED <<store, pipeline, upstream, run, prev, stageRaised, s3,
                   extractVars, transformVars, scopeVars, qualityVars, loaderVars, serviceVars>>

\* transform_data
EqTransform ==
    /\ Stage("nifty500", "transform")
    /\ res' = IF Skip THEN res
              ELSE LET df == TransformBatch(res.data, Strptime(res.trade_date))
                   IN [trade_date |-> res.trade_date, row_count |-> Len(df),
                       columns |-> Columns(df),
                       symbols_count |-> Cardinality({df[i].tradingsymbol : i \in 1..Len(df)}),
                       dataframe |-> df, status |-> "success"]
    /\ stage' = "load_raw"
    /\ UNCHANGED <<store, pipeline, upstream, run, prev, stageRaised, s3,
                   extractVars, transformVars, scopeVars, qualityVars, loaderVars, serviceVars>>

\* load_raw_data (nifty500_etl_dag)
EqLoadRaw ==
    /\ Stage("nifty500", "load_raw")
    /\ IF Skip THEN UNCHANGED <<res, store>>
       ELSE LET df == res.dataframe
                td == Strptime(res.trade_date)
            IN /\ store' = WriteEquityRaw(store, df, td)
               /\ res' = [trade_date |-> res.trade_date,
                          file_path |-> WrittenPath(EquityPartitionPath("raw", td),
                                                    df, "data.parquet"),
                          row_count |-> Len(df), status |-> "success"]
    /\ stage' = "process"
    /\ UNCHANGED <<pipeline, upstream, run, prev, stageRaised, s3,
                   extractVars, transformVars, scopeVars, qualityVars, loaderVars, serviceVars>>

\* process_data (nifty500_etl_dag): reads the file the load stage returned
EqProcess ==
    /\ Stage("nifty500", "process")
    /\ IF Skip THEN UNCHANGED <<res, store>>
       ELSE LET td == Strptime(res.trade_date)
                raw_path == Get(res, "file_path", <<>>)
            IN IF raw_path = <<>>
               THEN /\ res' = [status |-> "skipped", reason |-> "no raw data path"]
                    /\ UNCHANGED store
               ELSE LET df == ReadParquet(store, raw_path)
                    IN IF IsEmptyFrame(df)
                       THEN /\ res' = [status |-> "skipped", reason |-> "no raw data"]
                            /\ UNCHANGED store
                       ELSE LET sorted == Normalize(df)
                            IN /\ store' = WriteEquityProcessed(store, sorted, td)
                               /\ res' = [trade_date |-> res.trade_date,
                                          file_path |-> WrittenPath(
                                              EquityPartitionPath("processed", td),
                                              sorted, "data.parquet"),
                                          row_count |-> Len(sorted),
                                          status |-> "success"]
    /\ stage' = "upload"
    /\ UNCHANGED <<pipeline, upstream, run, prev, stageRaised, s3,
                   extractVars, transformVars, scopeVars, qualityVars, loaderVars, serviceVars>>

\* S3 key of the equity mirror: nifty500/date=<trade_date>/data.parquet
EquityKey(ds) == <<"nifty500", ds, "data.parquet">>

\* upload_to_s3; upload_equity_data returns the key, or None when upload_file
\* gave up after its retries.
EqUploadFailureFailsRun ==
    /\ Stage("nifty500", "upload")
    /\ IF Skip THEN UNCHANGED <<res, s3>>
       ELSE IF ~s3.configured
            THEN /\ res' = Merge(res, [s3_status |-> "skipped",
                                       s3_reason |-> "not configured"])
                 /\ UNCHANGED s3
            ELSE \E uploaded \in BOOLEAN :
                   IF uploaded
                   THEN /\ s3' = [s3 EXCEPT !.objects = @ \cup {EquityKey(res.trade_date)}]
                        /\ res' = Merge(res, [s3_key |-> EquityKey(res.trade_date),
                                              s3_status |-> "success"])
                   ELSE /\ res' = Merge(res, [s3_status |-> "failed",
                                              status |-> "failed"])
                        /\ UNCHANGED s3
    /\ stage' = "quality"
    /\ UNCHANGED <<store, pipeline, upstream, run, prev, stageRaised,
                   extractVars, transformVars, scopeVars, qualityVars, loaderVars, serviceVars>>
EqUpload ==
    /\ Stage("nifty500", "upload")
    /\ IF Skip THEN UNCHANGED <<res, s3>>
       ELSE IF ~s3.configured
            THEN /\ res' = Merge(res, [s3_status |-> "skipped",
                                       s3_reason |-> "not configured"])
                 /\ UNCHANGED s3
            ELSE \E uploaded \in BOOLEAN :
                   IF uploaded
                   THEN /\ s3' = [s3 EXCEPT !.objects = @ \cup {EquityKey(res.trade_date)}]
                        /\ res' = Merge(res, [s3_key |-> EquityKey(res.trade_date),
                                              s3_status |-> "success"])
                   ELSE /\ res' = Merge(res, [s3_status |-> "failed"])
                        /\ UNCHANGED s3
    /\ stage' = "quality"
    /\ UNCHANGED <<store, pipeline, upstream, run, prev, stageRaised,
                   extractVars, transformVars, scopeVars, qualityVars, loaderVars, serviceVars>>

\* Candles expected per stock at the 5-minute interval.
ExpectedCandlesPerStock == 75

\* Check 1 of quality_check: the warnings for row_count rows of
\* symbols_count symbols; expected_min = symbols_count * 75 * 0.8.
CoverageFindingsAtThreshold(row_count, symbols_count) ==
    IF row_count * 10 <= symbols_count * ExpectedCandlesPerStock * 8
    THEN << <<"coverage", "", row_count>> >> ELSE <<>>
CoverageFindings(row_count, symbols_count) ==
    IF row_count * 10 < symbols_count * ExpectedCandlesPerStock * 8
    THEN << <<"coverage", "", row_count>> >> ELSE <<>>

\* The inline checks of quality_check (nifty500_etl_dag): [errors, warnings].
\* expected_min = symbols_count * 75 * 0.8; null share above 1.0 percent.
EquityChecks(df) ==
    LET symbols_count ==
            IF "tradingsymbol" \in Columns(df)
            THEN Cardinality({df[i].tradingsymbol : i \in 1..Len(df)}) ELSE 0
        coverage == CoverageFindings(Len(df), symbols_count)
        critical == <<"timestamp", "open", "high", "low", "close">>
        nulls(col) == Count(df, LAMBDA r : r[col] \in {NaN, NaT, NoneVal})
        N[i \in 0..Len(critical)] ==
            IF i = 0 THEN <<>>
            ELSE IF critical[i] \in Columns(df)
                    /\ nulls(critical[i]) * 100 > Len(df)
                 THEN Append(N[i-1], <<"nulls", critical[i], nulls(critical[i])>>)
                 ELSE N[i-1]
        Lt(a, b) == a # NaN /\ b # NaN /\ a < b
        invalid == Count(df, LAMBDA r :
                      \/ Lt(r.high, r.low) \/ Lt(r.high, r.open) \/ Lt(r.high, r.close)
                      \/ Lt(r.open, r.low) \/ Lt(r.close, r.low))
    IN [errors |-> IF invalid > 0
                   THEN Append(N[Len(critical)], <<"invalid_ohlc", "", invalid>>)
                   ELSE N[Len(critical)],
        warnings |-> coverage,
        symbols_count |-> symbols_count]

\* quality_check (nifty500_etl_dag)
EqQuality ==
    /\ Stage("nifty500", "quality")
    /\ IF Skip THEN UNCHANGED res
       ELSE LET file_path == Get(res, "file_path", <<>>)
            IN IF file_path = <<>>
               THEN res' = [status |-> "skipped", reason |-> "no file path"]
               ELSE LET df == ReadParquet(store, file_path)
                        q == EquityChecks(df)
                        passed == Len(q.errors) = 0
                    IN res' = [trade_date |-> res.trade_date, passed |-> passed,
                               errors |-> q.errors, warnings |-> q.warnings,
                               row_count |-> Len(df),
                               symbols_count |-> q.symbols_count,
                               s3_key |-> Get(res, "s3_key", <<>>),
                               status |-> IF passed THEN "success" ELSE "quality_failed"]
    /\ stage' = "done"
    /\ UNCHANGED <<store, pipeline, upstream, run, prev, stageRaised, s3,
                   extractVars, transformVars, scopeVars, qualityVars, loaderVars, serviceVars>>

\* The scheduler starts the next run of the chain (catchup / backfill
\* re-runs, max_active_runs = 1) once the previous one has finished.
NextRun ==
    /\ stage = "done"
    /\ run < MaxRuns
    /\ run' = run + 1
    /\ prev' = [upstream |-> upstream, store |-> store]
    /\ upstream' \in RunInputs(pipeline)
    /\ stage' = "extract"
    /\ res' = <<>>
    /\ UNCHANGED <<store, pipeline, stageRaised, s3,
                   extractVars, transformVars, scopeVars, qualityVars, loaderVars, serviceVars>>

NextPipeline ==
    \/ FnoExtract
    \/ FnoTransform
    \/ FnoLoadRaw
    \/ FnoProcess
    \/ FnoQuality
    \/ EqExtract
    \/ EqTransform
    \/ EqLoadRaw
    \/ EqProcess
    \/ EqUpload
    \/ EqQuality
    \/ NextRun

SpecPipeline == InitPipeline /\ [][NextPipeline]_vars

(***************************************************************************)
(* Claims about the pipelines over the store (SpecPipeline)                *)
(***************************************************************************)
\* The dataset the transform stage of the current run yields.
TransformedOfRun ==
    IF pipeline = "fno"
    THEN FnoTransformBatch(
             KiteExtractDaily(PipelineInstruments, upstream.replies, upstream.und),
             Strptime(upstream.ds))
    ELSE TransformBatch(
             NiftyExtractDaily(PipelineInstruments, upstream.replies).results,
             Strptime(upstream.ds))

\* The run got through extraction and its transform stage yields no row.
EmptyTransformRun ==
    /\ pipeline \in {"fno", "nifty500"}
    /\ upstream.catalog_ok
    /\ IsEmptyFrame(TransformedOfRun)

\* C9 (as claimed): a run whose transform stage yields an empty dataset is a
\* no-op downstream in both pipelines: the store stays as it was when the run
\* started (no partition created, no file rewritten), no stage raises, and
\* the run does not end failed or quality_failed - also when partitions for
\* the same scope and date exist from an earlier run.
C9_EmptyTransformIsNoOp ==
    EmptyTransformRun =>
        /\ store = prev.store
        /\ ~stageRaised
        /\ stage = "done" => res.status \notin {"failed", "quality_failed"}

\* The partitions of the current run's scope and date.
RunPartition(layer) ==
    IF pipeline = "fno"
    THEN PartitionPath(layer, upstream.und, Strptime(upstream.ds))
    ELSE EquityPartitionPath(layer, Strptime(upstream.ds))

\* The files of a partition with their rows, in order (no write counters).
PartitionContent(st, part) ==
    IF part \notin DOMAIN st THEN <<>>
    ELSE [f \in DOMAIN st[part] |-> st[part][f].rows]

\* C10: a run that repeats the previous run's scope, date and upstream data
\* leaves the raw and the processed partition with exactly the rows they
\* had after that previous run.
C10_RerunSameRows ==
    (stage = "done" /\ run >= 2 /\ prev.upstream = upstream) =>
        \A layer \in {"raw", "processed"} :
            PartitionContent(store, RunPartition(layer))
                = PartitionContent(prev.store, RunPartition(layer))

\* C10 witness: a re-run with the same inputs has finished over partitions
\* that hold rows.
C10_Witness ==
    /\ stage = "done"
    /\ run >= 2
    /\ prev.upstream = upstream
    /\ res.status = "success"
    /\ \A layer \in {"raw", "processed"} :
          /\ RunPartition(layer) \in DOMAIN store
          /\ store[RunPartition(layer)]["data.parquet"].rows # <<>>
          /\ store[RunPartition(layer)]["data.parquet"].writes >= 2

\* The dates a run may be started for.
RunDates == {Strptime(ds) : ds \in DateStrings}

Layers == {"raw", "processed", "analytics"}

\* C21: the partition directory is a function of (layer, scope key, date) that
\* is one-to-one; in the derivatives pipeline a run leaves what
\* read_partition returns for every other (underlying, date) as it was when
\* the run started, and every partition holds rows of its own underlying and
\* trade date only.
C21_PartitionsIsolated ==
    /\ \A l1, l2 \in Layers : \A u1, u2 \in Underlyings : \A d1, d2 \in RunDates :
          PartitionPath(l1, u1, d1) = PartitionPath(l2, u2, d2)
              => (l1 = l2 /\ u1 = u2 /\ d1 = d2)
    /\ pipeline = "fno" =>
          \A l \in Layers : \A u \in Underlyings : \A d \in RunDates :
             /\ <<u, d>> # <<upstream.und, Strptime(upstream.ds)>> =>
                   ReadPartition(store, l, u, d) = ReadPartition(prev.store, l, u, d)
             /\ \A df \in ReadPartition(store, l, u, d) : \A i \in 1..Len(df) :
                   df[i].underlying = u /\ df[i].trade_date = d

\* C21 witness: two runs for the same date and different underlyings have
\* finished, and both raw partitions hold rows.
C21_Witness ==
    /\ pipeline = "fno"
    /\ run = 2
    /\ stage = "done"
    /\ upstream.und # prev.upstream.und
    /\ upstream.ds = prev.upstream.ds
    /\ \A u \in Underlyings :
          \A df \in ReadPartition(store, "raw", u, Strptime(upstream.ds)) : df # <<>>

\* C23: upload_to_s3 given a successful result returns, without raising, a
\* successful result that keeps every field of its input and adds s3_status:
\* skipped exactly when the credentials are absent, otherwise success or
\* failed; the quality check then runs and ends the chain with its verdict.
C23_UploadNeverFailsRun ==
    [][ /\ ( pipeline = "nifty500" /\ stage = "upload" /\ res.status = "success" ) =>
            /\ ~stageRaised'
            /\ stage' = "quality"
            /\ res'.status = "success"
            /\ \A k \in DOMAIN res : k \in DOMAIN res' /\ res'[k] = res[k]
            /\ res'.s3_status \in {"skipped", "failed", "success"}
            /\ res'.s3_status = "skipped" <=> ~s3.configured
        /\ ( pipeline = "nifty500" /\ stage = "quality" /\ res.status = "success" ) =>
            /\ ~stageRaised'
            /\ stage' = "done"
            /\ res'.status \in {"success", "quality_failed"}
            /\ res'.row_count = Len(ReadParquet(store, res.file_path))
      ]_vars

\* C23 witness: the upload gave up, and the stage handed a successful result
\* with s3_status failed to the quality check.
C23_Witness ==
    /\ pipeline = "nifty500"
    /\ stage = "quality"
    /\ s3.configured
    /\ res.status = "success"
    /\ res.s3_status = "failed"
    /\ res.file_path # <<>>

\* C24: a stage after extraction that is handed a result whose status is not
\* success returns that very result, raises nothing and changes neither the
\* store nor the remote bucket.
C24_NonSuccessPassesThrough ==
    [][ ( /\ stage \in {"transform", "load_raw", "process", "upload", "quality"}
          /\ res.status # "success" ) =>
            /\ res' = res
            /\ store' = store
            /\ s3' = s3
            /\ ~stageRaised'
      ]_vars

\* C24 witness: a chain has ended with the failed result of its extraction,
\* over a store that an earlier run filled.
C24_Witness ==
    /\ stage = "done"
    /\ run = 2
    /\ res.status = "failed"
    /\ "error" \in DOMAIN res
    /\ store # <<>>
    /\ store = prev.store

(***************************************************************************)
(* SpecQuality: DataQualityChecker.run_all_checks, check by check, over    *)
(* every dataset of the domain below, followed by the inline checks of the *)
(* equity quality_check on the same dataset.                               *)
(***************************************************************************)
\* Rows of the small datasets.
MaxQRows == 2

\* (open, high, low, close): sound, negative open, negative low, zero low,
\* high below low, missing high.
QualityOHLC ==
    { <<1, 2, 1, 1>>, <<0 - 1, 2, 1, 1>>, <<1, 2, 0 - 1, 1>>, <<1, 2, 0, 1>>,
      <<1, 1, 2, 1>>, <<1, NaN, 1, 1>> }

\* Null, 09:15 and 15:31.
QualityTimestamps == {NaT, MARKET_OPEN, MARKET_CLOSE + 1}

QualityRow(sym, ts, q) ==
    [tradingsymbol |-> sym, timestamp |-> ts,
     open |-> q[1], high |-> q[2], low |-> q[3], close |-> q[4]]

QualityRows ==
    {QualityRow(sym, ts, q) : sym \in Symbols, ts \in QualityTimestamps, q \in QualityOHLC}

\* The dataset without one of its columns.
DropColumn(df, col) ==
    [i \in 1..Len(df) |-> [k \in (DOMAIN df[i]) \ {col} |-> df[i][k]]]

\* Rows per symbol at which the coverage threshold is met exactly.
FullCoverage == (ExpectedCandlesPerStock * 8) \div 10

\* n sound 5-minute candles of one symbol from 09:15 on.
Session(sym, n) ==
    [i \in 1..n |-> QualityRow(sym, MARKET_OPEN + 5 * (i - 1), <<1, 2, 1, 1>>)]

\* Datasets a processed file may hold: every dataset of at most MaxQRows
\* rows, the one-row datasets lacking a column, and sessions at and just
\* below the coverage threshold of one or two symbols with at most one more
\* row.
QualityDatasets ==
    UNION {[1..n -> QualityRows] : n \in 0..MaxQRows}
    \cup {DropColumn(<<r>>, col) : r \in QualityRows,
                                   col \in {"timestamp", "tradingsymbol", "open"}}
    \cup {Session("A", na) \o Session("B", nb) \o extra :
             na \in {FullCoverage - 1, FullCoverage},
             nb \in {0, FullCoverage - 1, FullCoverage},
             extra \in {<<>>} \cup {<<r>> : r \in QualityRows}}

InitQuality ==
    /\ IdleExtract /\ IdleTransform /\ IdlePipeline /\ IdleLoader
    /\ IdleMirror /\ IdleResolver
    /\ underlying = "none"
    /\ trade_date = 1
    /\ \E df \in QualityDatasets : checker = NewChecker(df)
    /\ qpc = "not_empty"
    /\ ran = <<>>
    /\ report = <<>>
    /\ eq = <<>>

QualityFrame == <<extractVars, transformVars, pipelineVars, scopeVars, loaderVars,
                  serviceVars>>

\* run_all_checks, line by line.
RunCheckNotEmptyShortCircuit ==
    /\ qpc = "not_empty"
    /\ checker' = CheckNotEmpty(checker)
    /\ ran' = Append(ran, "not_empty")
    /\ qpc' = IF IsEmptyFrame(checker.df) THEN "checked" ELSE "null_timestamps"
    /\ UNCHANGED <<report, eq, QualityFrame>>
RunCheckNotEmpty ==
    /\ qpc = "not_empty"
    /\ checker' = CheckNotEmpty(checker)
    /\ ran' = Append(ran, "not_empty")
    /\ qpc' = "null_timestamps"
    /\ UNCHANGED <<report, eq, QualityFrame>>

RunCheckNoNullTimestamps ==
    /\ qpc = "null_timestamps"
    /\ checker' = CheckNoNullTimestamps(checker)
    /\ ran' = Append(ran, "null_timestamps")
    /\ qpc' = "unique"
    /\ UNCHANGED <<report, eq, QualityFrame>>

RunCheckUniqueSymbolTimestamps ==
    /\ qpc = "unique"
    /\ checker' = CheckUniqueSymbolTimestamps(checker)
    /\ ran' = Append(ran, "unique")
    /\ qpc' = "market_hours"
    /\ UNCHANGED <<report, eq, QualityFrame>>

RunCheckMarketHours ==
    /\ qpc = "market_hours"
    /\ checker' = CheckMarketHours(checker)
    /\ ran' = Append(ran, "market_hours")
    /\ qpc' = "price_validity"
    /\ UNCHANGED <<report, eq, QualityFrame>>

RunCheckPriceValidity ==
    /\ qpc = "price_validity"
    /\ checker' = CheckPriceValidity(checker)
    /\ ran' = Append(ran, "price_validity")
    /\ qpc' = "checked"
    /\ UNCHANGED <<report, eq, QualityFrame>>

\* passed = len(self.errors) == 0; return passed, self.errors, self.warnings
ReturnReport ==
    /\ qpc = "checked"
    /\ report' = [passed |-> Passed(checker), errors |-> checker.errors,
                  warnings |-> checker.warnings]
    /\ qpc' = "returned"
    /\ UNCHANGED <<checker, ran, eq, QualityFrame>>

\* The inline checks of the equity quality_check on the dataset read from
\* the processed file: df["high"] raises KeyError when a price column is
\* missing.
EquityQualityCheck ==
    /\ qpc = "returned"
    /\ eq' = IF ~(PriceCols \subseteq Columns(checker.df))
             THEN [raised |-> TRUE]
             ELSE LET q == EquityChecks(checker.df)
                      passed == Len(q.errors) = 0
                  IN [raised |-> FALSE, passed |-> passed, errors |-> q.errors,
                      warnings |-> q.warnings, row_count |-> Len(checker.df),
                      symbols_count |-> q.symbols_count,
                      status |-> IF passed THEN "success" ELSE "quality_failed"]
    /\ qpc' = "equity_checked"
    /\ UNCHANGED <<checker, ran, report, QualityFrame>>

NextQuality ==
    \/ RunCheckNotEmpty
    \/ RunCheckNoNullTimestamps
    \/ RunCheckUniqueSymbolTimestamps
    \/ RunCheckMarketHours
    \/ RunCheckPriceValidity
    \/ ReturnReport
    \/ EquityQualityCheck

SpecQuality == InitQuality /\ [][NextQuality]_vars

(***************************************************************************)
(* SpecRecheck: run_all_checks called repeatedly on one DataQualityChecker *)
(* over the dataset it was constructed with.                               *)
(***************************************************************************)
\* Most calls of run_all_checks on one checker.
MaxCalls == 2

\* The next call of run_all_checks on the same instance: self.errors and
\* self.warnings are set in __init__ only (lines 24-25), so the call starts
\* with the lists the previous call left.
CallsStarted == Cardinality({i \in 1..Len(ran) : ran[i] = "not_empty"})

RunAllChecksAgain ==
    /\ qpc = "returned"
    /\ CallsStarted < MaxCalls
    /\ qpc' = "not_empty"
    /\ UNCHANGED <<checker, ran, report, eq, QualityFrame>>

NextRecheck ==
    \/ RunCheckNotEmpty
    \/ RunCheckNoNullTimestamps
    \/ RunCheckUniqueSymbolTimestamps
    \/ RunCheckMarketHours
    \/ RunCheckPriceValidity
    \/ ReturnReport
    \/ RunAllChecksAgain

SpecRecheck == InitQuality /\ [][NextRecheck]_vars

(***************************************************************************)
(* Claims about the quality gate (SpecQuality)                             *)
(***************************************************************************)
Kinds(findings) == {findings[i][1] : i \in 1..Len(findings)}

HasNegative(df, col) == \E i \in 1..Len(df) : df[i][col] # NaN /\ df[i][col] < 0
HasZero(df, col) == \E i \in 1..Len(df) : df[i][col] = 0
HasHighBelowLow(df) ==
    \E i \in 1..Len(df) : df[i].high # NaN /\ df[i].low # NaN /\ df[i].high < df[i].low
HasNullTimestamp(df) == \E i \in 1..Len(df) : df[i].timestamp \in {NaT, NoneVal}

\* A dataset with every column and none of the blocking defects: whatever
\* it has of duplicates, off-hours rows and zero prices.
WarningsOnlyDataset(df) ==
    /\ ~IsEmptyFrame(df)
    /\ {"timestamp", "tradingsymbol"} \cup PriceCols \subseteq Columns(df)
    /\ ~HasNullTimestamp(df)
    /\ \A col \in PriceCols : ~HasNegative(df, col)
    /\ ~HasHighBelowLow(df)

\* C11: run_all_checks returns passed = true exactly when the returned error
\* list is empty; warnings never change the verdict, so a dataset whose
\* only findings are duplicate keys, off-hours rows or zero prices passes.
C11_PassedIffNoErrors ==
    report # <<>> =>
        /\ report.passed <=> (report.errors = <<>>)
        /\ WarningsOnlyDataset(checker.df) => report.passed

\* C11 witness: a report that passes while carrying all three warnings.
C11_Witness ==
    /\ report # <<>>
    /\ report.passed
    /\ Kinds(report.warnings) = {"duplicate", "outside_hours", "zero"}

CheckOrder ==
    <<"not_empty", "null_timestamps", "unique", "market_hours", "price_validity">>

\* The position in CheckOrder of the check that reports a kind of finding.
FindingRank(kind) ==
    CASE kind = "empty" -> 1
      [] kind \in {"missing_column", "null"} -> 2
      [] kind = "duplicate" -> 3
      [] kind = "outside_hours" -> 4
      [] OTHER -> 5

InCheckOrder(findings) ==
    \A i, j \in 1..Len(findings) :
        i < j => FindingRank(findings[i][1]) <= FindingRank(findings[j][1])

\* C12: run_all_checks executes the five checks in the fixed order, all of
\* them whatever an earlier check found, and the errors and the warnings it
\* returns are in that check order.
C12_FixedCheckOrder ==
    /\ ran = SubSeq(CheckOrder, 1, Len(ran))
    /\ qpc \in {"checked", "returned", "equity_checked"} => ran = CheckOrder
    /\ report # <<>> => InCheckOrder(report.errors) /\ InCheckOrder(report.warnings)

\* C12 witness: the first check failed (empty dataset) and the later ones
\* still ran and reported.
C12_Witness ==
    /\ report # <<>>
    /\ ran = CheckOrder
    /\ Len(report.errors) >= 2
    /\ report.errors[1][1] = "empty"

CountKind(findings, kind, col) ==
    Cardinality({i \in 1..Len(findings) : findings[i][1] = kind /\ findings[i][2] = col})

\* C13 (as claimed): one error per price column with a negative value, one
\* warning per price column with a zero, and one error if any row has
\* high < low.
C13_PriceValidityAsClaimed ==
    (report # <<>> /\ {"high", "low"} \subseteq Columns(checker.df)) =>
        (HasHighBelowLow(checker.df) => "high_lt_low" \in Kinds(report.errors))

\* C13 (amended): one error per price column present with a negative value,
\* one warning per price column present with a zero, and one error if any
\* row has high < low provided all four price columns are present; a
\* dataset whose only defect is a negative open gets passed = false with
\* exactly one error, naming open.
C13_PriceValidity ==
    report # <<>> =>
        LET df == checker.df
        IN /\ \A col \in PriceCols \cap Columns(df) :
                /\ CountKind(report.errors, "negative", col)
                      = IF HasNegative(df, col) THEN 1 ELSE 0
                /\ CountKind(report.warnings, "zero", col)
                      = IF HasZero(df, col) THEN 1 ELSE 0
           /\ CountKind(report.errors, "high_lt_low", "")
                 = IF PriceCols \subseteq Columns(df) /\ HasHighBelowLow(df)
                   THEN 1 ELSE 0
           /\ Kinds(report.warnings) \cap {"negative", "high_lt_low"} = {}
           /\ "zero" \notin Kinds(report.errors)
           /\ ( /\ {"timestamp", "tradingsymbol"} \cup PriceCols \subseteq Columns(df)
                /\ ~HasNullTimestamp(df)
                /\ HasNegative(df, "open")
                /\ \A col \in PriceCols \ {"open"} : ~HasNegative(df, col)
                /\ ~HasHighBelowLow(df) )
              => /\ ~report.passed
                 /\ Len(report.errors) = 1
                 /\ report.errors[1][1] = "negative"
                 /\ report.errors[1][2] = "open"

\* C13 witness: a dataset whose only blocking defect is a negative open, with
\* a zero price beside it.
C13_Witness ==
    /\ report # <<>>
    /\ ~report.passed
    /\ Len(report.errors) = 1
    /\ report.errors[1][2] = "open"
    /\ "zero" \in Kinds(report.warnings)

\* Distinct symbols of a dataset.
DistinctSymbols(df) ==
    IF "tradingsymbol" \in Columns(df)
    THEN Cardinality({df[i].tradingsymbol : i \in 1..Len(df)}) ELSE 0

\* C14: in the equity quality check a row count below distinct_symbols x 75
\* x 0.8 gives a warning and never an error, a row count at or above it
\* gives no coverage finding, and with no errors the check reports passed
\* and status success (20 symbols: 1100 rows warn, 1200 rows do not).
C14_CoverageIsWarning ==
    /\ CoverageFindings(1100, 20) # <<>>
    /\ CoverageFindings(1200, 20) = <<>>
    /\ (eq # <<>> /\ ~eq.raised) =>
          /\ "coverage" \in Kinds(eq.warnings)
                <=> Len(checker.df) * 10
                      < DistinctSymbols(checker.df) * ExpectedCandlesPerStock * 8
          /\ "coverage" \notin Kinds(eq.errors)
          /\ eq.errors = <<>> => eq.passed /\ eq.status = "success"

\* C14 witness: two symbols one row short of the threshold: a coverage
\* warning on a check that passes.
C14_Witness ==
    /\ eq # <<>>
    /\ ~eq.raised
    /\ eq.symbols_count = 2
    /\ eq.row_count = 2 * FullCoverage - 1
    /\ "coverage" \in Kinds(eq.warnings)
    /\ eq.passed
    /\ eq.status = "success"

\* C15 (as claimed): every dataset that run_all_checks fails also fails
\* the equity pipeline's quality check.
C15_EquityCheckRefinesGate ==
    (report # <<>> /\ eq # <<>> /\ ~report.passed) => (eq.raised \/ ~eq.passed)

(***************************************************************************)
(* SpecLoader: calls of ParquetLoader on one lake. A write that gets past  *)
(* its checks runs in steps: pq.write_table opens (truncates) the target   *)
(* file and completes it when it closes the file; the writing process may  *)
(* be terminated in between, and read_partition may run at any point.      *)
(***************************************************************************)
\* Loader calls in one behaviour.
MaxOps == 3

LoaderUnderlying == "BANKNIFTY"
LoaderDate == 1

LoaderRow(n) == QualityRow("A", MARKET_OPEN + 5 * n, <<1, 2, 1, 1>>)

\* The datasets written: empty, one row, two other rows.
LoaderFrames == {<<>>, <<LoaderRow(0)>>, <<LoaderRow(1), LoaderRow(2)>>}

\* write_raw / write_processed write data.parquet; write_analytics takes the
\* file name.
LoaderWrites ==
    [op : {"write_raw", "write_processed"}, df : LoaderFrames, overwrite : BOOLEAN,
     filename : {"data.parquet"}]
    \cup [op : {"write_analytics"}, df : LoaderFrames, overwrite : BOOLEAN,
          filename : {"indicators.parquet", "signals.parquet"}]

LayerOf(op) ==
    CASE op = "write_raw" -> "raw"
      [] op = "write_processed" -> "processed"
      [] op = "write_analytics" -> "analytics"

PartitionOf(layer) == PartitionPath(layer, LoaderUnderlying, LoaderDate)

\* partition_path.mkdir(parents=True, exist_ok=True)
MkDir(st, part) ==
    [q \in DOMAIN st \cup {part} |-> IF q \in DOMAIN st THEN st[q] ELSE <<>>]

FileExists(st, part, filename) == part \in DOMAIN st /\ filename \in DOMAIN st[part]

\* pq.write_table opening the target: the file exists and is empty.
OpenTruncate(st, part, filename) ==
    LET old == IF FileExists(st, part, filename) THEN st[part][filename].writes ELSE 0
    IN [st EXCEPT ![part] =
           [f \in DOMAIN st[part] \cup {filename} |->
               IF f = filename THEN [rows |-> <<>>, writes |-> old] ELSE st[part][f]]]

\* pd.read_parquet raises on a file without footer.
ReadRaises(st, notClosed, part) ==
    /\ part \in DOMAIN st
    /\ \E f \in DOMAIN st[part] : Append(part, f) \in notClosed

LoaderFrame ==
    <<extractVars, transformVars, scopeVars, qualityVars, serviceVars,
      pipeline, stage, res, upstream, run, prev, stageRaised, s3>>

InitLoader ==
    /\ IdleExtract /\ IdleTransform /\ IdleQuality /\ IdlePipeline /\ IdleLoader
    /\ IdleMirror /\ IdleResolver
    /\ underlying = "none"
    /\ trade_date = 1

\* _write_layer up to pq.write_table: the empty check, the path, mkdir and
\* the overwrite check. The call returns here when it writes nothing.
WriteCall ==
    /\ inflight = <<>>
    /\ ops < MaxOps
    /\ \E w \in LoaderWrites :
          LET part == PartitionOf(LayerOf(w.op))
              writes == /\ ~IsEmptyFrame(w.df)
                        /\ ~(FileExists(store, part, w.filename) /\ ~w.overwrite)
          IN IF writes
             THEN /\ store' = MkDir(store, part)
                  /\ inflight' = [call |-> w, before |-> store, phase |-> "mkdir"]
                  /\ UNCHANGED lastWrite
             ELSE /\ store' = WriteAt(store, part, w.df, w.overwrite, w.filename)
                  /\ lastWrite' = [call |-> w, layer |-> LayerOf(w.op),
                                   path |-> IF IsEmptyFrame(w.df) THEN <<>>
                                            ELSE Append(part, w.filename),
                                   before |-> store, after |-> store']
                  /\ UNCHANGED inflight
    /\ ops' = ops + 1
    /\ UNCHANGED <<partial, lastRead, LoaderFrame>>

\* pq.write_table opens the target file for writing.
WriteOpen ==
    /\ inflight # <<>>
    /\ inflight.phase = "mkdir"
    /\ LET w == inflight.call
           part == PartitionOf(LayerOf(w.op))
       IN /\ store' = OpenTruncate(store, part, w.filename)
          /\ partial' = partial \cup {Append(part, w.filename)}
    /\ inflight' = [inflight EXCEPT !.phase = "opened"]
    /\ UNCHANGED <<lastWrite, lastRead, ops, LoaderFrame>>

\* pq.write_table writes the footer and closes; _write_layer returns the path.
WriteFinish ==
    /\ inflight # <<>>
    /\ inflight.phase = "opened"
    /\ LET w == inflight.call
           part == PartitionOf(LayerOf(w.op))
       IN /\ store' = WriteAt(store, part, w.df, TRUE, w.filename)
          /\ partial' = partial \ {Append(part, w.filename)}
          /\ lastWrite' = [call |-> w, layer |-> LayerOf(w.op),
                           path |-> WrittenPath(part, w.df, w.filename),
                           before |-> inflight.before, after |-> store']
    /\ inflight' = <<>>
    /\ UNCHANGED <<lastRead, ops, LoaderFrame>>

\* The writing task is terminated before _write_layer returns.
WriteKilled ==
    /\ inflight # <<>>
    /\ inflight' = <<>>
    /\ UNCHANGED <<store, partial, lastWrite, lastRead, ops, LoaderFrame>>

\* read_partition, at any point of a write.
ReadCall ==
    /\ ops < MaxOps
    /\ \E layer \in {"raw", "analytics"} :
          LET part == PartitionOf(layer)
              raises == ReadRaises(store, partial, part)
          IN \E frame \in (IF raises THEN {<<>>}
                           ELSE ReadPartition(store, layer, LoaderUnderlying, LoaderDate)) :
                lastRead' =
                    [layer |-> layer, raised |-> raises, result |-> frame,
                     since |-> lastWrite,
                     quiet |-> inflight = <<>> /\ partial = {},
                     exists |-> part \in DOMAIN store,
                     readable |-> IF part \in DOMAIN store
                                  THEN {f \in DOMAIN store[part] :
                                           Append(part, f) \notin partial}
                                  ELSE {}]
    /\ ops' = ops + 1
    /\ UNCHANGED <<store, inflight, partial, lastWrite, LoaderFrame>>

NextLoader == WriteCall \/ WriteOpen \/ WriteFinish \/ WriteKilled \/ ReadCall

SpecLoader == InitLoader /\ [][NextLoader]_vars

(***************************************************************************)
(* Claims about ParquetLoader (SpecLoader)                                 *)
(***************************************************************************)
\* The same rows with the same multiplicities.
SameRowMultiset(a, b) ==
    \A x \in SeqToSet(a) \cup SeqToSet(b) :
        Cardinality({i \in 1..Len(a) : a[i] = x})
            = Cardinality({i \in 1..Len(b) : b[i] = x})

\* C16 (as claimed): after a write of a non-empty dataset D with overwrite
\* = true has returned, read_partition on the same partition returns exactly
\* the rows of D, whatever files the partition held before (no write in
\* progress and no unfinished file at the time of the read).
C16_WriteReadRoundTrip ==
    (/\ lastRead # <<>>
     /\ lastRead.since # <<>>
     /\ lastRead.quiet
     /\ lastRead.since.layer = lastRead.layer
     /\ lastRead.since.call.overwrite
     /\ ~IsEmptyFrame(lastRead.since.call.df))
    => /\ ~lastRead.raised
       /\ SameRowMultiset(lastRead.result, lastRead.since.call.df)

\* C17: a write of an empty dataset returns the empty path and leaves the
\* lake as it was: no directory and no file created or modified, whatever
\* overwrite is.
C17_EmptyWriteIsNoOp ==
    (lastWrite # <<>> /\ IsEmptyFrame(lastWrite.call.df)) =>
        /\ lastWrite.path = <<>>
        /\ lastWrite.after = lastWrite.before

\* C17 witness: an empty write with overwrite = false into a lake that has
\* no directory for the partition.
C17_Witness ==
    /\ lastWrite # <<>>
    /\ IsEmptyFrame(lastWrite.call.df)
    /\ ~lastWrite.call.overwrite
    /\ PartitionOf(lastWrite.layer) \notin DOMAIN lastWrite.before
    /\ PartitionOf(lastWrite.layer) \notin DOMAIN store

\* C18 (as claimed): read_partition returns an empty dataset and does not
\* raise when the partition directory is absent or holds no readable file.
C18_ReadOfNothingIsEmpty ==
    (lastRead # <<>> /\ (~lastRead.exists \/ lastRead.readable = {})) =>
        /\ ~lastRead.raised
        /\ IsEmptyFrame(lastRead.result)

\* C19: a write of a non-empty dataset with overwrite = false is a no-op
\* returning the file's path when the target file exists (contents kept, no
\* other file created), and writes the dataset when the target is absent.
C19_NoOverwriteKeepsFile ==
    (lastWrite # <<>> /\ ~IsEmptyFrame(lastWrite.call.df) /\ ~lastWrite.call.overwrite) =>
        LET part == PartitionOf(lastWrite.layer)
            filename == lastWrite.call.filename
        IN /\ lastWrite.path = Append(part, filename)
           /\ IF FileExists(lastWrite.before, part, filename)
              THEN lastWrite.after = lastWrite.before
              ELSE /\ lastWrite.after[part][filename].rows = lastWrite.call.df
                   /\ \A q \in DOMAIN lastWrite.before :
                         \A f \in DOMAIN lastWrite.before[q] :
                            lastWrite.after[q][f] = lastWrite.before[q][f]

\* C19 witness: overwrite = false met a file holding another dataset and
\* left it.
C19_Witness ==
    /\ lastWrite # <<>>
    /\ ~IsEmptyFrame(lastWrite.call.df)
    /\ ~lastWrite.call.overwrite
    /\ FileExists(lastWrite.before, PartitionOf(lastWrite.layer), lastWrite.call.filename)
    /\ lastWrite.before[PartitionOf(lastWrite.layer)][lastWrite.call.filename].rows
          \notin {<<>>, lastWrite.call.df}
    /\ lastWrite.after = lastWrite.before

\* C20 (as claimed): a write with overwrite = true replaces the file
\* transactionally: when it returns the file holds exactly its dataset, and
\* any read of the raw partition - between the steps of a write or after a
\* write was terminated - returns without raising the complete dataset of
\* one write (or nothing when no write ever started).
C20_TransactionalReplace ==
    /\ (lastWrite # <<>> /\ ~IsEmptyFrame(lastWrite.call.df) /\ lastWrite.call.overwrite) =>
          lastWrite.after[PartitionOf(lastWrite.layer)][lastWrite.call.filename].rows
              = lastWrite.call.df
    /\ (lastRead # <<>> /\ lastRead.layer = "raw") =>
          /\ ~lastRead.raised
          /\ lastRead.result \in LoaderFrames

\* A structural defect of a non-empty dataset: a required column is missing,
\* or a critical column holds nulls only.
StructuralError(df) ==
    /\ df # <<>>
    /\ \/ ~(({"timestamp"} \cup PriceCols) \subseteq Columns(df))
       \/ \E col \in ({"timestamp"} \cup PriceCols) \cap Columns(df) :
             \A i \in 1..Len(df) : df[i][col] \in {NaN, NaT, NoneVal}

\* C25 (as claimed): a structural data error never makes the quality stage
\* raise; run_all_checks reports it as an error (verdict failed, the stage
\* returns quality_failed), and so does the equity quality check.
C25_StructuralErrorIsGateError ==
    /\ eq # <<>> => ~eq.raised
    /\ (report # <<>> /\ StructuralError(checker.df)) => ~report.passed
    /\ (eq # <<>> /\ StructuralError(checker.df)) =>
          (~eq.raised /\ eq.status = "quality_failed")

(***************************************************************************)
(* SpecMirror: calls of the S3Loader methods on one loader, with the       *)
(* tenacity retry of upload_file one attempt per step.                     *)
(***************************************************************************)
\* Calls made on the loader in one behaviour.
MaxMirrorOps == 2

\* @retry(stop=stop_after_attempt(3), ...) on upload_file
UploadAttempts == 3

\* Everything outside the S3Loader.
MirrorFrame ==
    <<extractVars, transformVars, pipelineVars, scopeVars, qualityVars, loaderVars,
      resolver>>

\* Object keys the callers use.
MirrorKeys == {EquityKey(ds) : ds \in DateStrings}

\* *.parquet files a local directory may hold, in glob order.
DirListings == {<<>>, <<"a.parquet">>, <<"a.parquet", "b.parquet">>}

\* s3_key = f"{s3_prefix}/{file_path.name}"
DirKey(prefix, name) == <<prefix, name>>

\* is_configured: all([bucket_name, aws_access_key_id, aws_secret_access_key])
IsConfiguredBucketOnly(m) == m.bucket_name
IsConfigured(m) == m.bucket_name /\ m.access_key /\ m.secret_key

\* The loader after construction: each setting is present or not, the client
\* is not built (self._client = None), the bucket is empty.
InitMirror ==
    /\ IdleExtract /\ IdleTransform /\ IdlePipeline /\ IdleQuality /\ IdleLoader
    /\ IdleResolver
    /\ underlying = "none"
    /\ trade_date = 1
    /\ \E b, k, sk \in BOOLEAN :
         mirror = [bucket_name |-> b, access_key |-> k, secret_key |-> sk,
                   client |-> FALSE, requests |-> 0, objects |-> {},
                   call |-> <<>>, ret |-> <<>>, ops |-> 0]

MirrorIdle == mirror # <<>> /\ mirror.call = <<>> /\ mirror.ops < MaxMirrorOps

\* A call of `method` has returned `value` (or raised) after `attempts`
\* invocations of the body of upload_file.
Returned(m, method, value, attempts, raises) ==
    [m EXCEPT !.call = <<>>,
              !.ret = [method |-> method, value |-> value, attempts |-> attempts,
                       raised |-> raises]]

Started(m, method, keys) ==
    [m EXCEPT !.ops = @ + 1,
              !.call = [method |-> method, keys |-> keys, attempts |-> 0,
                        uploaded |-> <<>>]]

\* upload_file is called directly: tenacity invokes the body.
UploadFileCall ==
    /\ MirrorIdle
    /\ \E key \in MirrorKeys : mirror' = Started(mirror, "upload_file", <<key>>)
    /\ UNCHANGED MirrorFrame

\* upload_equity_data: returns None when not configured (lines 140-142),
\* otherwise calls upload_file with the key of the trade date.
UploadEquityData ==
    /\ MirrorIdle
    /\ \E ds \in DateStrings :
         mirror' = IF ~IsConfigured(mirror)
                   THEN Returned([mirror EXCEPT !.ops = @ + 1],
                                 "upload_equity_data", NoneVal, 0, FALSE)
                   ELSE Started(mirror, "upload_equity_data", <<EquityKey(ds)>>)
    /\ UNCHANGED MirrorFrame

\* upload_directory: returns [] when not configured (lines 107-109) or when
\* nothing matches the pattern, otherwise uploads file after file.
UploadDirectory ==
    /\ MirrorIdle
    /\ \E files \in DirListings :
         mirror' = IF ~IsConfigured(mirror) \/ files = <<>>
                   THEN Returned([mirror EXCEPT !.ops = @ + 1],
                                 "upload_directory", <<>>, 0, FALSE)
                   ELSE Started(mirror, "upload_directory",
                                [i \in 1..Len(files) |-> DirKey("backup", files[i])])
    /\ UNCHANGED MirrorFrame

\* What the caller of upload_file does with its outcome (True, False or the
\* RetryError): upload_file itself hands it to its caller, upload_equity_data
\* maps it to the key or None, upload_directory collects the key and goes on
\* with the next file.
UploadOutcome(m, ok, raises, attempts) ==
    LET c == m.call
        key == c.keys[1]
    IN CASE c.method = "upload_file" ->
                Returned(m, "upload_file", ok, attempts, raises)
         [] c.method = "upload_equity_data" ->
                Returned(m, "upload_equity_data", IF ok THEN key ELSE NoneVal,
                         attempts, FALSE)
         [] c.method = "upload_directory" ->
                LET uploaded == IF ok THEN Append(c.uploaded, key) ELSE c.uploaded
                IN IF Len(c.keys) = 1
                   THEN Returned(m, "upload_directory", uploaded, attempts, FALSE)
                   ELSE [m EXCEPT !.call = [c EXCEPT !.keys = Tail(@),
                                                     !.attempts = 0,
                                                     !.uploaded = uploaded]]

\* One invocation of the body of upload_file (lines 74-88): False without a
\* remote call when not configured; otherwise client.upload_file succeeds, or
\* raises ClientError, which tenacity answers with another invocation until
\* UploadAttempts were made and then with RetryError.
UploadAttempt ==
    /\ mirror # <<>>
    /\ mirror.call # <<>>
    /\ LET n == mirror.call.attempts + 1
       IN IF ~IsConfigured(mirror)
          THEN mirror' = UploadOutcome(mirror, FALSE, FALSE, n)
          ELSE \E ok \in BOOLEAN :
                 LET called == [mirror EXCEPT !.client = TRUE, !.requests = @ + 1,
                                              !.call.attempts = n]
                 IN IF ok
                    THEN mirror' = UploadOutcome(
                             [called EXCEPT !.objects = @ \cup {called.call.keys[1]}],
                             TRUE, FALSE, n)
                    ELSE IF n < UploadAttempts
                         THEN mirror' = called
                         ELSE mirror' = UploadOutcome(called, FALSE, TRUE, n)
    /\ UNCHANGED MirrorFrame

\* check_file_exists: False when not configured; otherwise head_object, whose
\* 404 gives False and whose other errors are re-raised.
CheckFileExists ==
    /\ MirrorIdle
    /\ \E key \in MirrorKeys :
         IF ~IsConfigured(mirror)
         THEN mirror' = Returned([mirror EXCEPT !.ops = @ + 1],
                                 "check_file_exists", FALSE, 0, FALSE)
         ELSE \E denied \in BOOLEAN :
                mirror' = Returned([mirror EXCEPT !.ops = @ + 1, !.client = TRUE,
                                                  !.requests = @ + 1],
                                   "check_file_exists",
                                   ~denied /\ key \in mirror.objects, 0, denied)
    /\ UNCHANGED MirrorFrame

\* list_files: [] when not configured or on ClientError; otherwise the keys
\* under the prefix.
ListFiles ==
    /\ MirrorIdle
    /\ \E prefix \in {"nifty500", "backup"} :
         IF ~IsConfigured(mirror)
         THEN mirror' = Returned([mirror EXCEPT !.ops = @ + 1],
                                 "list_files", {}, 0, FALSE)
         ELSE \E failedCall \in BOOLEAN :
                mirror' = Returned([mirror EXCEPT !.ops = @ + 1, !.client = TRUE,
                                                  !.requests = @ + 1],
                                   "list_files",
                                   IF failedCall THEN {}
                                   ELSE {k \in mirror.objects : k[1] = prefix},
                                   0, FALSE)
    /\ UNCHANGED MirrorFrame

NextMirror ==
    \/ UploadFileCall
    \/ UploadEquityData
    \/ UploadDirectory
    \/ UploadAttempt
    \/ CheckFileExists
    \/ ListFiles

SpecMirror == InitMirror /\ [][NextMirror]_vars

(***************************************************************************)
(* Claims about the remote mirror (SpecMirror)                             *)
(***************************************************************************)
\* C22: while the loader is not configured (bucket name, access key or secret
\* key absent) no client is constructed and no request reaches the object
\* store; each method returns its negative result (False, the empty list,
\* None) without raising, upload_file after a single invocation with no
\* retry, and the wrappers without invoking upload_file at all.
C22_NoRemoteCallUnconfigured ==
    (mirror # <<>> /\ ~(mirror.bucket_name /\ mirror.access_key /\ mirror.secret_key)) =>
        /\ ~mirror.client
        /\ mirror.requests = 0
        /\ mirror.objects = {}
        /\ mirror.ret # <<>> =>
              /\ ~mirror.ret.raised
              /\ mirror.ret.method = "upload_file" =>
                    mirror.ret.value = FALSE /\ mirror.ret.attempts = 1
              /\ mirror.ret.method = "check_file_exists" => mirror.ret.value = FALSE
              /\ mirror.ret.method = "upload_equity_data" =>
                    mirror.ret.value = NoneVal /\ mirror.ret.attempts = 0
              /\ mirror.ret.method = "upload_directory" =>
                    mirror.ret.value = <<>> /\ mirror.ret.attempts = 0
              /\ mirror.ret.method = "list_files" => mirror.ret.value = {}

\* C22 witness: a loader with a bucket name and no keys has answered an
\* upload_file call and another call.
C22_Witness ==
    /\ mirror # <<>>
    /\ mirror.bucket_name /\ ~mirror.access_key /\ ~mirror.secret_key
    /\ mirror.ops = 2
    /\ mirror.call = <<>>
    /\ mirror.ret.method = "upload_file"
    /\ mirror.ret.value = FALSE

(***************************************************************************)
(* SpecResolve: Nifty500Extractor.get_nifty500_instruments over a catalog, *)
(* an optional requested list and the outcome of fetching the index list.  *)
(***************************************************************************)
\* Longest requested or fetched symbol list, and most catalog instruments.
MaxSymbols == 2

\* _get_fallback_symbols
FallbackSymbols ==
    << "RELIANCE", "TCS", "HDFCBANK", "INFY", "ICICIBANK",
       "HINDUNILVR", "SBIN", "BHARTIARTL", "KOTAKBANK", "ITC",
       "LT", "AXISBANK", "BAJFINANCE", "ASIANPAINT", "MARUTI",
       "TITAN", "SUNPHARMA", "ULTRACEMCO", "WIPRO", "HCLTECH" >>

\* Symbols NSE equity instruments may carry: three of the fallback list and
\* one outside it.
CatalogSymbols == {"RELIANCE", "ITC", "HCLTECH", "ZOMATO"}

\* Symbols a requested or fetched list may hold: in the catalog universe or
\* not listed at all.
ListSymbols == {"RELIANCE", "ZOMATO", "UNLISTED"}

Instrument(sym) == [tradingsymbol |-> sym, instrument_token |-> Len(sym)]

\* get_nse_instruments: the cached NSE equity instruments, symbols distinct.
Catalogs ==
    {c \in UNION {[1..n -> {Instrument(x) : x \in CatalogSymbols}] : n \in 0..MaxSymbols} :
        \A i, j \in 1..Len(c) : i # j => c[i] # c[j]}

SymbolLists == UNION {[1..n -> ListSymbols] : n \in 0..MaxSymbols}

ResolveFrame ==
    <<extractVars, transformVars, pipelineVars, scopeVars, qualityVars, loaderVars,
      mirror>>

InitResolve ==
    /\ IdleExtract /\ IdleTransform /\ IdlePipeline /\ IdleQuality /\ IdleLoader
    /\ IdleMirror
    /\ underlying = "none"
    /\ trade_date = 1
    /\ \E c \in Catalogs :
         \E rq \in {[given |-> FALSE, list |-> <<>>]}
                       \cup [given : {TRUE}, list : SymbolLists] :
         \E src \in {[ok |-> FALSE, list |-> <<>>]}
                       \cup [ok : {TRUE}, list : SymbolLists] :
            \* the index list is fetched only when no list was requested
            /\ rq.given => ~src.ok
            /\ resolver = [catalog |-> c, requested |-> rq, source |-> src,
                           pc |-> "symbols", symbols |-> <<>>, result |-> <<>>,
                           raised |-> FALSE]

\* Lines 81-82 with _get_nifty500_symbols: the requested list, else the
\* fetched index list, else (any exception of the fetch) the fallback list.
SymbolsInUseNoFallback(rq, src) ==
    IF rq.given THEN rq.list
    ELSE IF src.ok THEN src.list ELSE <<>>
SymbolsInUse(rq, src) ==
    IF rq.given THEN rq.list
    ELSE IF src.ok THEN src.list ELSE FallbackSymbols

ResolveSymbols ==
    /\ resolver # <<>>
    /\ resolver.pc = "symbols"
    /\ resolver' = [resolver EXCEPT
                        !.symbols = SymbolsInUse(resolver.requested, resolver.source),
                        !.pc = "match"]
    /\ UNCHANGED ResolveFrame

\* symbol_map = {inst["tradingsymbol"]: inst for inst in nse_instruments}:
\* the last instrument of each symbol.
SymbolMap(catalog, sym) ==
    LET at == {i \in 1..Len(catalog) : catalog[i].tradingsymbol = sym}
    IN IF at = {} THEN <<>>
       ELSE << catalog[CHOOSE i \in at : \A j \in at : j <= i] >>

\* Lines 88-94: the instrument of every listed symbol found in the map, in
\* list order; the others go to `missing`, which is only logged.
MatchSymbols(catalog, symbols) ==
    LET F[i \in 0..Len(symbols)] ==
            IF i = 0 THEN <<>> ELSE F[i-1] \o SymbolMap(catalog, symbols[i])
    IN F[Len(symbols)]

MatchCatalog ==
    /\ resolver # <<>>
    /\ resolver.pc = "match"
    /\ resolver' = [resolver EXCEPT
                        !.result = MatchSymbols(resolver.catalog, resolver.symbols),
                        !.pc = "done"]
    /\ UNCHANGED ResolveFrame

NextResolve == ResolveSymbols \/ MatchCatalog

SpecResolve == InitResolve /\ [][NextResolve]_vars

(***************************************************************************)
(* Claims about instrument resolution (SpecResolve)                        *)
(***************************************************************************)
\* C26: resolution never raises; with no requested list and a failed fetch
\* of the index list the list in use is the fixed fallback list of 20
\* symbols; and the instruments returned are exactly the catalog instruments
\* of the symbols of the list in use (requested, fetched or fallback) that
\* the catalog holds, in list order.
C26_FallbackResolution ==
    (resolver # <<>> /\ resolver.pc = "done") =>
        LET rq == resolver.requested
            src == resolver.source
            list == IF rq.given THEN rq.list
                    ELSE IF src.ok THEN src.list ELSE resolver.symbols
            found == SelectIdx(list, {i \in 1..Len(list) :
                        \E c \in 1..Len(resolver.catalog) :
                            resolver.catalog[c].tradingsymbol = list[i]})
        IN /\ ~resolver.raised
           /\ (~rq.given /\ ~src.ok) =>
                 /\ Len(resolver.symbols) = 20
                 /\ resolver.symbols[1] = "RELIANCE"
                 /\ resolver.symbols[20] = "HCLTECH"
                 /\ Cardinality(SeqToSet(resolver.symbols)) = 20
           /\ Len(resolver.result) = Len(found)
           /\ \A j \in 1..Len(found) :
                 /\ resolver.result[j].tradingsymbol = found[j]
                 /\ resolver.result[j] \in SeqToSet(resolver.catalog)

\* C26 witness: no list was requested, the fetch failed, and the call
\* returned the two catalog instruments that are on the fallback list, in
\* the order of that list, leaving out the other eighteen symbols.
C26_Witness ==
    /\ resolver # <<>>
    /\ resolver.pc = "done"
    /\ ~resolver.requested.given
    /\ ~resolver.source.ok
    /\ resolver.catalog = <<Instrument("HCLTECH"), Instrument("RELIANCE")>>
    /\ resolver.result = <<Instrument("RELIANCE"), Instrument("HCLTECH")>>

(***************************************************************************)
(* Claims about repeated validation (SpecRecheck)                          *)
(***************************************************************************)
\* C30 (as claimed): a later call of run_all_checks on the same checker over
\* the unchanged dataset returns what the previous call returned: the same
\* verdict, the same error list and the same warning list.
C30_RepeatedCallSameReport ==
    [][(qpc = "checked" /\ report # <<>>) => report' = report]_vars

====
